---- MODULE Spec2Model ----
(***************************************************************************)
(* A model of the answer normalizer (_clean_answer) and of the             *)
(* orchestrators' answer_question of src/agents/gemini_agent.py and        *)
(* src/agents/openai_agent.py.                                             *)
(*                                                                         *)
(* Text is modelled character by character: a Python str is a sequence of  *)
(* one-character strings, so that startswith, strip, split and the regular *)
(* expressions act on the same characters as in the source.                *)
(***************************************************************************)
EXTENDS Integers, Sequences, FiniteSets, TLC

VARIABLES
    raw,      \* the value handed to _clean_answer (a Python value)
    npc,      \* position of the normalizer run: "start", "done", "again"
    trace,    \* the intermediate values of the last _clean_answer call
    result,   \* outcome of _clean_answer(raw)
    second,   \* outcome of _clean_answer applied to its own result
    orch,     \* the orchestrator in use: "gemini" or "openai"
    apc,      \* position inside answer_question
    calls,    \* number of answer_question calls started
    prompt,   \* the prompt of the current call
    attempts, \* agent invocations made by _run_agent_with_retry in this call
    sleeps,   \* the waits between attempts of this call, in seconds
    response, \* the value the agent invocation returned
    failure,  \* the exception of the last failed attempt, NoExc when none
    exc,      \* the exception that left the try body of this call, NoExc when none
    ret,      \* what the current answer_question call returned
    memory,   \* self.memory: the object (by its id) and the turns it holds
    agent,    \* the agent loop of the current call and the memory it was given
    bpc,      \* position inside run_and_submit_all
    fetched,  \* the outcome of the GET of the question list
    qfile,    \* the state of questions.json as load_questions_from_file met it
    questions_data,  \* the variable questions_data
    idx,      \* index of the item the for loop is at
    file_path,       \* the variable file_path of the current item
    answers_payload, \* the list answers_payload
    results_log,     \* the list results_log
    delays,   \* the time.sleep calls of the loop, in seconds
    posts,    \* number of POSTs to the submit endpoint
    status,   \* what run_and_submit_all returned or raised
    tpc,      \* position of a tool call: "called", "done"
    tool,     \* name of the tool called
    arg,      \* the text the tool is called with
    tenv,     \* the file system and the external service as the call meets them
    tout      \* what the tool call returned or raised

nvars == <<raw, npc, trace, result, second>>
avars == <<orch, apc, calls, prompt, attempts, sleeps, response, failure, exc, ret,
           memory, agent>>
bvars == <<bpc, fetched, qfile, questions_data, idx, file_path, answers_payload,
           results_log, delays, posts, status>>
tvars == <<tpc, tool, arg, tenv, tout>>
vars == <<raw, npc, trace, result, second,
          orch, apc, calls, prompt, attempts, sleeps, response, failure, exc, ret,
          memory, agent,
          bpc, fetched, qfile, questions_data, idx, file_path, answers_payload,
          results_log, delays, posts, status,
          tpc, tool, arg, tenv, tout>>

(***************************************************************************)
(* Bounds of the model.                                                    *)
(***************************************************************************)
\* number of pieces an input text is concatenated from
MaxPieces == 3
\* number of questions put to one orchestrator
MaxCalls == 2
\* number of pieces (words, blanks) a text given to fix_reversed_text is made of
MaxWords == 3

(***************************************************************************)
(* Python values and call outcomes.                                        *)
(***************************************************************************)
Str(s) == [type |-> "str", s |-> s]
NoneValue == [type |-> "NoneType"]
IntValue(n) == [type |-> "int", n |-> n]
\* an object exposing a content attribute (e.g. a chat message)
Message(c) == [type |-> "object", content |-> c]
\* a dict given by its items, a sequence of <<key, value>>
Dict(items) == [type |-> "dict", items |-> items]
\* an instance of a dict subclass that also exposes a content attribute
AttrDict(items, c) == [type |-> "dict", items |-> items, content |-> c]

Return(v) == [raised |-> FALSE, value |-> v]
Raise(e, msg) == [raised |-> TRUE, exc |-> e, msg |-> msg]

(***************************************************************************)
(* str methods.                                                            *)
(***************************************************************************)
\* the characters str.strip() removes and the regex class \s matches
Whitespace == {" ", "\n", "\t", "\r"}

\* s[i:] and s[i:j] with 1-based inclusive bounds
Slice(s, i, j) == IF i > j THEN <<>> ELSE SubSeq(s, i, j)

\* first position >= i of s holding a character of set cs, Len(s)+1 when none
FirstOf(s, i, cs) ==
    IF \E j \in i..Len(s) : s[j] \in cs
    THEN CHOOSE j \in i..Len(s) : s[j] \in cs /\ \A k \in i..(j - 1) : s[k] \notin cs
    ELSE Len(s) + 1

\* first position >= i of s holding a character outside set cs, Len(s)+1 when none
FirstNotOf(s, i, cs) ==
    IF \E j \in i..Len(s) : s[j] \notin cs
    THEN CHOOSE j \in i..Len(s) : s[j] \notin cs /\ \A k \in i..(j - 1) : s[k] \in cs
    ELSE Len(s) + 1

\* last position of s holding a character outside set cs, 0 when none
LastNotOf(s, cs) ==
    IF \E j \in 1..Len(s) : s[j] \notin cs
    THEN CHOOSE j \in 1..Len(s) :
             s[j] \notin cs /\ \A k \in (j + 1)..Len(s) : s[k] \in cs
    ELSE 0

lstrip(s) == Slice(s, FirstNotOf(s, 1, Whitespace), Len(s))

rstrip(s) == Slice(s, 1, LastNotOf(s, Whitespace))

strip(s) == rstrip(lstrip(s))

startswith(s, p) == Len(s) >= Len(p) /\ SubSeq(s, 1, Len(p)) = p

endswith(s, p) == Len(s) >= Len(p) /\ SubSeq(s, Len(s) - Len(p) + 1, Len(s)) = p

\* the literal p occurs in s at position i
MatchAt(s, i, p) == i + Len(p) - 1 <= Len(s) /\ SubSeq(s, i, i + Len(p) - 1) = p

\* s.split('\n')
RECURSIVE split(_)
split(s) ==
    LET n == FirstOf(s, 1, {"\n"})
    IN  IF n > Len(s) THEN <<s>>
        ELSE <<Slice(s, 1, n - 1)>> \o split(Slice(s, n + 1, Len(s)))

(***************************************************************************)
(* str() and repr() of the Python values above.                            *)
(***************************************************************************)
Contains(s, c) == \E i \in 1..Len(s) : s[i] = c

\* repr of a str is quoted with ' unless the text holds a ' and no "
repr_quote(s) == IF Contains(s, "'") /\ ~Contains(s, "\"") THEN "\"" ELSE "'"

repr_char(c, q) ==
    CASE c = q -> <<"\\", q>>
      [] c = "\\" -> <<"\\", "\\">>
      [] c = "\n" -> <<"\\", "n">>
      [] c = "\t" -> <<"\\", "t">>
      [] c = "\r" -> <<"\\", "r">>
      [] OTHER -> <<c>>

\* the characters of s[lo..hi], each as repr prints it
RECURSIVE repr_chars(_, _, _, _)
repr_chars(s, lo, hi, q) ==
    IF lo > hi THEN <<>>
    ELSE IF lo = hi THEN repr_char(s[lo], q)
    ELSE LET mid == (lo + hi) \div 2
         IN  repr_chars(s, lo, mid, q) \o repr_chars(s, mid + 1, hi, q)

repr_str(s) == LET q == repr_quote(s) IN <<q>> \o repr_chars(s, 1, Len(s), q) \o <<q>>

Digits == <<"0", "1", "2", "3", "4", "5", "6", "7", "8", "9">>

RECURSIVE decimal(_)
decimal(n) ==
    IF n < 10 THEN <<Digits[n + 1]>>
    ELSE decimal(n \div 10) \o <<Digits[(n % 10) + 1]>>

RECURSIVE py_repr(_)
RECURSIVE repr_items(_, _)
repr_items(items, i) ==
    IF i > Len(items) THEN <<>>
    ELSE (IF i > 1 THEN <<",", " ">> ELSE <<>>)
         \o repr_str(items[i][1]) \o <<":", " ">> \o py_repr(items[i][2])
         \o repr_items(items, i + 1)

py_repr(v) ==
    CASE v.type = "str" -> repr_str(v.s)
      [] v.type = "NoneType" -> <<"N", "o", "n", "e">>
      [] v.type = "int" -> decimal(v.n)
      [] v.type = "dict" -> <<"{">> \o repr_items(v.items, 1) \o <<"}">>

\* str(v): a str is itself, any other value prints as its repr
py_str(v) == IF v.type = "str" THEN v.s ELSE py_repr(v)

(***************************************************************************)
(* Step 1 of _clean_answer: the response formats.                          *)
(***************************************************************************)
content_key == <<"c", "o", "n", "t", "e", "n", "t">>

\* hasattr(answer, 'content'): a value is a record, and exposes the attribute
\* when it has the field
hasattr_content(answer) == "content" \in DOMAIN answer

\* 'content' in answer, for a dict
has_key(d, key) == \E i \in 1..Len(d.items) : d.items[i][1] = key

\* answer['content']: the value of the last item with that key
get_item(d, key) ==
    LET i == CHOOSE j \in 1..Len(d.items) :
                 /\ d.items[j][1] = key
                 /\ \A k \in (j + 1)..Len(d.items) : d.items[k][1] # key
    IN  d.items[i][2]

\* the same tests with the dict test ahead of the attribute test
unwrap_response_dict_first(answer) ==
    IF answer.type = "dict"
    THEN IF has_key(answer, content_key)
         THEN get_item(answer, content_key)
         ELSE Str(py_str(answer))
    ELSE IF hasattr_content(answer) THEN answer.content
    ELSE IF answer.type # "str" THEN Str(py_str(answer))
    ELSE answer

unwrap_response(answer) ==
    IF hasattr_content(answer) THEN answer.content
    ELSE IF answer.type = "dict"
         THEN IF has_key(answer, content_key)
              THEN get_item(answer, content_key)
              ELSE Str(py_str(answer))
    ELSE IF answer.type # "str" THEN Str(py_str(answer))
    ELSE answer

(***************************************************************************)
(* Step 2 of _clean_answer: the four re.sub calls.                         *)
(***************************************************************************)
\* End of the match of  open .*? close  that starts at i (0: no match there).
\* '.' matches any character but a newline and '.*?' is lazy, so the match
\* ends at the first close after the opener, unless a newline comes first.
SpanEnd(s, i, open, close) ==
    IF ~MatchAt(s, i, open) THEN 0
    ELSE LET j == FirstOf(s, i + Len(open), {close, "\n"})
         IN  IF j <= Len(s) /\ s[j] = close THEN j ELSE 0

\* re.sub(open + '.*?' + close, '', s): every non-overlapping match, leftmost
\* first, is deleted; the scan goes on after the end of each match
RECURSIVE re_sub_from(_, _, _, _)
re_sub_from(s, i, open, close) ==
    IF \E m \in i..Len(s) : SpanEnd(s, m, open, close) > 0
    THEN LET m == CHOOSE x \in i..Len(s) :
                      /\ SpanEnd(s, x, open, close) > 0
                      /\ \A y \in i..(x - 1) : SpanEnd(s, y, open, close) = 0
         IN  Slice(s, i, m - 1) \o re_sub_from(s, SpanEnd(s, m, open, close) + 1, open, close)
    ELSE Slice(s, i, Len(s))

re_sub(open, close, s) == re_sub_from(s, 1, open, close)

additional_kwargs == <<"a","d","d","i","t","i","o","n","a","l","_","k","w","a","r","g","s","=","{">>
response_metadata == <<"r","e","s","p","o","n","s","e","_","m","e","t","a","d","a","t","a","=","{">>
id_quote == <<"i","d","=","'">>
usage_metadata == <<"u","s","a","g","e","_","m","e","t","a","d","a","t","a","=","{">>

strip_metadata(answer) ==
    LET a1 == re_sub(additional_kwargs, "}", answer)
        a2 == re_sub(response_metadata, "}", a1)
        a3 == re_sub(id_quote, "'", a2)
    IN  re_sub(usage_metadata, "}", a3)

(***************************************************************************)
(* Step 3: re.search(r'FINAL ANSWER:\s*(.*?)(?:\n|$)', answer, IGNORECASE) *)
(***************************************************************************)
FINAL_ANSWER == <<"F","I","N","A","L"," ","A","N","S","W","E","R",":">>

\* the characters a pattern character matches under re.IGNORECASE
IgnoreCase(c) ==
    CASE c = "F" -> {"F", "f"}
      [] c = "I" -> {"I", "i"}
      [] c = "N" -> {"N", "n"}
      [] c = "A" -> {"A", "a"}
      [] c = "L" -> {"L", "l"}
      [] c = "S" -> {"S", "s"}
      [] c = "W" -> {"W", "w"}
      [] c = "E" -> {"E", "e"}
      [] c = "R" -> {"R", "r"}
      [] OTHER -> {c}

MarkerAt(s, i) ==
    /\ i + Len(FINAL_ANSWER) - 1 <= Len(s)
    /\ \A k \in 1..Len(FINAL_ANSWER) : s[i + k - 1] \in IgnoreCase(FINAL_ANSWER[k])

\* position of the leftmost match of the label at or after i, 0 when there is none
MarkerFrom(s, i) ==
    IF \E m \in i..Len(s) : MarkerAt(s, m)
    THEN CHOOSE m \in i..Len(s) : MarkerAt(s, m) /\ \A y \in i..(m - 1) : ~MarkerAt(s, y)
    ELSE 0

\* the search that takes the last match of the label in place of the first
re_search_final_last(s) ==
    IF MarkerFrom(s, 1) = 0 THEN [found |-> FALSE, group1 |-> <<>>]
    ELSE LET m == CHOOSE x \in 1..Len(s) :
                      MarkerAt(s, x) /\ \A y \in (x + 1)..Len(s) : ~MarkerAt(s, y)
             b == FirstNotOf(s, m + Len(FINAL_ANSWER), Whitespace)
             e == FirstOf(s, b, {"\n"})
         IN  [found |-> TRUE, group1 |-> Slice(s, b, e - 1)]

\* the search with [ \t]* in place of \s*: the whitespace skipped after the
\* label stops at the end of the label's line
re_search_final_same_line(s) ==
    LET m == MarkerFrom(s, 1)
    IN  IF m = 0 THEN [found |-> FALSE, group1 |-> <<>>]
        ELSE LET b == FirstNotOf(s, m + Len(FINAL_ANSWER), {" ", "\t"})
                 e == FirstOf(s, b, {"\n"})
             IN  [found |-> TRUE, group1 |-> Slice(s, b, e - 1)]

\* the match object: found, and group(1). \s* is greedy and takes every
\* whitespace character after the label, line breaks included; (.*?) then
\* runs to the next newline or to the end of the text.
re_search_final(s) ==
    LET m == MarkerFrom(s, 1)
    IN  IF m = 0 THEN [found |-> FALSE, group1 |-> <<>>]
        ELSE LET b == FirstNotOf(s, m + Len(FINAL_ANSWER), Whitespace)
                 e == FirstOf(s, b, {"\n"})
             IN  [found |-> TRUE, group1 |-> Slice(s, b, e - 1)]

(***************************************************************************)
(* Step 4: the fallback line.                                              *)
(***************************************************************************)
skip_prefixes == <<
    <<"T","h","e"," ","a","n","s","w","e","r"," ","i","s">>,
    <<"A","n","s","w","e","r",":">>,
    <<"F","i","n","a","l"," ","a","n","s","w","e","r",":">>,
    <<"T","h","e"," ","r","e","s","u","l","t"," ","i","s">> >>

\* line.startswith((...)) with a tuple of prefixes
startswith_any(line, ps) == \E k \in 1..Len(ps) : startswith(line, ps[k])

\* for line in reversed(lines): the first stripped line that is non-empty and
\* starts with no opener replaces answer; answer is kept when there is none
\* the scan that takes the last non-empty line whatever it starts with
RECURSIVE last_answer_line_any(_, _, _)
last_answer_line_any(answer, lines, k) ==
    IF k = 0 THEN answer
    ELSE LET line == strip(lines[k])
         IN  IF Len(line) > 0 THEN line
             ELSE last_answer_line_any(answer, lines, k - 1)

RECURSIVE last_answer_line(_, _, _)
last_answer_line(answer, lines, k) ==
    IF k = 0 THEN answer
    ELSE LET line == strip(lines[k])
         IN  IF Len(line) > 0 /\ ~startswith_any(line, skip_prefixes)
             THEN line
             ELSE last_answer_line(answer, lines, k - 1)

extract_answer(answer) ==
    LET final_answer_match == re_search_final(answer)
    IN  IF final_answer_match.found
        THEN strip(final_answer_match.group1)
        ELSE LET lines == split(strip(answer))
             IN  last_answer_line(answer, lines, Len(lines))

(***************************************************************************)
(* Step 5: prefixes_to_remove.                                             *)
(***************************************************************************)
prefixes_to_remove == <<
    <<"T","h","e"," ","a","n","s","w","e","r"," ","i","s"," ">>,
    <<"A","n","s","w","e","r",":"," ">>,
    <<"F","i","n","a","l"," ","a","n","s","w","e","r",":"," ">>,
    <<"T","h","e"," ","r","e","s","u","l","t"," ","i","s"," ">>,
    <<"T","o"," ","a","n","s","w","e","r"," ","t","h","i","s"," ","q","u","e","s","t","i","o","n",":"," ">>,
    <<"B","a","s","e","d"," ","o","n"," ","t","h","e"," ","i","n","f","o","r","m","a","t","i","o","n"," ","p","r","o","v","i","d","e","d",","," ">>,
    <<"A","c","c","o","r","d","i","n","g"," ","t","o"," ","t","h","e"," ","i","n","f","o","r","m","a","t","i","o","n",":"," ">> >>

\* one pass of the for loop body, for the k-th prefix
remove_prefix(answer, prefix) ==
    IF startswith(answer, prefix)
    THEN strip(Slice(answer, Len(prefix) + 1, Len(answer)))
    ELSE answer

\* for prefix in prefixes_to_remove: the loop runs over the whole list (it has
\* no break), each prefix tested against the answer as left by the ones before
RECURSIVE remove_prefixes_from(_, _)
remove_prefixes_from(answer, k) ==
    IF k > Len(prefixes_to_remove) THEN answer
    ELSE remove_prefixes_from(remove_prefix(answer, prefixes_to_remove[k]), k + 1)

\* the loop with a break after the first prefix that matches
RECURSIVE remove_first_prefix_from(_, _)
remove_first_prefix_from(answer, k) ==
    IF k > Len(prefixes_to_remove) THEN answer
    ELSE IF startswith(answer, prefixes_to_remove[k])
         THEN remove_prefix(answer, prefixes_to_remove[k])
         ELSE remove_first_prefix_from(answer, k + 1)

remove_first_prefix(answer) == remove_first_prefix_from(answer, 1)

remove_prefixes(answer) == remove_prefixes_from(answer, 1)

(***************************************************************************)
(* Step 6: wrapping quotes.                                                *)
(***************************************************************************)
remove_quotes(answer) ==
    IF \/ startswith(answer, <<"\"">>) /\ endswith(answer, <<"\"">>)
       \/ startswith(answer, <<"'">>) /\ endswith(answer, <<"'">>)
    THEN strip(Slice(answer, 2, Len(answer) - 1))
    ELSE answer

(***************************************************************************)
(* _clean_answer on a text: the values of the variable answer after each   *)
(* step.                                                                   *)
(***************************************************************************)
clean_trace(text) ==
    LET cleaned == strip_metadata(text)
        working == extract_answer(cleaned)
        stripped == remove_prefixes(working)
        unquoted == remove_quotes(stripped)
    IN  [text |-> text, cleaned |-> cleaned, working |-> working,
         stripped |-> stripped, unquoted |-> unquoted, final |-> strip(unquoted)]

NoTrace == [text |-> <<>>, cleaned |-> <<>>, working |-> <<>>,
            stripped |-> <<>>, unquoted |-> <<>>, final |-> <<>>]

type_error == <<"e","x","p","e","c","t","e","d"," ","s","t","r","i","n","g"," ","o","r"," ","b","y","t","e","s","-","l","i","k","e"," ","o","b","j","e","c","t">>

\* The values of answer through a whole call; re.sub raises TypeError when
\* the unwrapped value is not a str.
clean_answer_steps(answer) ==
    LET unwrapped == unwrap_response(answer)
    IN  IF unwrapped.type # "str"
        THEN [outcome |-> Raise("TypeError", type_error), trace |-> NoTrace]
        ELSE LET t == clean_trace(unwrapped.s)
             IN  [outcome |-> Return(t.final), trace |-> t]

clean_answer(answer) == clean_answer_steps(answer).outcome

(***************************************************************************)
(* Inputs.                                                                 *)
(***************************************************************************)
Pieces == {
    <<"F","I","N","A","L"," ","A","N","S","W","E","R",":">>,
    <<"F","i","n","a","l"," ","a","n","s","w","e","r",":"," ">>,
    <<"T","h","e"," ","a","n","s","w","e","r"," ","i","s"," ">>,
    <<"A","n","s","w","e","r",":">>,
    <<"T","o"," ","a","n","s","w","e","r"," ","t","h","i","s"," ","q","u","e","s","t","i","o","n",":"," ">>,
    <<"A","n","s","w","e","r",":"," ">>,
    <<" ">>, <<"\n">>, <<"\"">>, <<"'">>, <<"4">>, <<"a">>,
    additional_kwargs, id_quote, <<"}">>,
    \* a whole metadata span whose dict holds a nested dict
    additional_kwargs \o <<"'","a","'",":"," ","{","}","}">> }

RECURSIVE Texts(_)
Texts(n) ==
    IF n = 0 THEN {<<>>}
    ELSE LET T == Texts(n - 1) IN T \cup {t \o p : t \in T, p \in Pieces}

output_key == <<"o", "u", "t", "p", "u", "t">>

\* a reasoning text that ends with a labelled answer line
reasoning_answer == <<"1","2","3","4",",","p","a","r","i","s",",","5","6","7","8",",","l","o","n","d","o","n">>

reasoning_text ==
    <<"R","e","a","s","o","n","i","n","g",".",".",".","\n">>
    \o FINAL_ANSWER \o <<" ">> \o reasoning_answer

\* the values a content attribute or a dict entry can hold
Contents == {Str(t) : t \in Texts(1)} \cup {NoneValue, IntValue(42), Str(reasoning_text)}

RawValues ==
    {Str(t) : t \in Texts(MaxPieces)}
    \cup {Message(c) : c \in Contents}
    \cup {Dict(<<<<content_key, c>>>>) : c \in Contents}
    \cup {Dict(<<<<output_key, c>>>>) : c \in Contents}
    \cup {AttrDict(<<<<content_key, Str(<<"a">>)>>>>, c) : c \in {Str(<<"4">>), NoneValue}}
    \cup {AttrDict(<<<<output_key, Str(<<"a">>)>>>>, Str(<<"4">>))}
    \cup (Contents \ {Str(t) : t \in Texts(1)})
    \* a transcript with an intermediate and a later labelled answer
    \cup {Str(<<"a", "\n">> \o FINAL_ANSWER \o <<" ", "a", "\n">>
               \o FINAL_ANSWER \o <<" ", "4">>)}

(***************************************************************************)
(* Exceptions.                                                             *)
(***************************************************************************)
NoExc == [cls |-> "none", msg |-> <<>>]
Exc(cls, msg) == [cls |-> cls, msg |-> msg]

\* the classes an exception of class cls is an instance of
Bases(cls) ==
    CASE cls = "ResourceExhausted" ->
             {"ResourceExhausted", "GoogleAPICallError", "Exception", "BaseException"}
      [] cls = "DeadlineExceeded" ->
             {"DeadlineExceeded", "GoogleAPICallError", "Exception", "BaseException"}
      [] cls = "RateLimitError" ->
             {"RateLimitError", "APIStatusError", "APIError", "Exception", "BaseException"}
      [] cls = "APITimeoutError" ->
             {"APITimeoutError", "APIConnectionError", "APIError", "Exception", "BaseException"}
      [] cls = "AuthenticationError" ->
             {"AuthenticationError", "APIStatusError", "APIError", "Exception", "BaseException"}
      [] OTHER -> {cls, "Exception", "BaseException"}

isinstance(e, classes) == Bases(e.cls) \cap classes # {}

\* str(e) of a failure of the agent invocation: its message names the attempt
FailureMsg(cls, n) ==
    (CASE cls = "ResourceExhausted" -> <<"q","u","o","t","a">>
       [] cls = "DeadlineExceeded" -> <<"d","e","a","d","l","i","n","e">>
       [] cls = "RateLimitError" -> <<"r","a","t","e">>
       [] cls = "APITimeoutError" -> <<"t","i","m","e","o","u","t">>
       [] cls = "AuthenticationError" -> <<"b","a","d"," ","k","e","y">>
       [] OTHER -> <<"p","a","r","s","e">>)
    \o <<" ">> \o decimal(n)

\* the failures an agent invocation can end with
FailureClasses ==
    {"ResourceExhausted", "DeadlineExceeded", "RateLimitError", "APITimeoutError",
     "AuthenticationError", "ValueError"}

\* str() of tenacity's RetryError: it prints the last attempt's future, which
\* names the class of the last failure and not its message
retry_error_text ==
    <<"R","e","t","r","y","E","r","r","o","r","[","<","F","u","t","u","r","e"," ",
      "r","a","i","s","e","d"," ","R","e","s","o","u","r","c","e","E","x","h","a","u",
      "s","t","e","d",">","]">>

(***************************************************************************)
(* _run_agent_with_retry: the tenacity policy of each orchestrator.        *)
(***************************************************************************)
GeminiMaxAttempts == 5
GeminiWaitSeconds == 20
OpenAIMaxAttempts == 3
OpenAIWaitSeconds == 15

\* retry=retry_if_exception_type(...)
retry_on(o) ==
    IF o = "gemini" THEN {"ResourceExhausted"}
    ELSE {"APIError", "RateLimitError", "APITimeoutError"}

\* the two attempt limits given to the other orchestrator
stop_after_attempt_swapped(o) == IF o = "gemini" THEN OpenAIMaxAttempts ELSE GeminiMaxAttempts

\* stop=stop_after_attempt(...)
stop_after_attempt(o) == IF o = "gemini" THEN GeminiMaxAttempts ELSE OpenAIMaxAttempts

\* wait=wait_fixed(...)
wait_fixed(o) == IF o = "gemini" THEN GeminiWaitSeconds ELSE OpenAIWaitSeconds

\* reraise=True is given for the OpenAI orchestrator only
reraise(o) == o = "openai"

\* What tenacity does after attempt number n failed with e: "sleep" before a
\* further attempt, or "raise" with the exception that leaves the wrapper.
after_failure(o, e, n) ==
    IF ~isinstance(e, retry_on(o)) THEN [do |-> "raise", exc |-> e]
    ELSE IF n >= stop_after_attempt(o)
         THEN [do |-> "raise",
               exc |-> IF reraise(o) THEN e ELSE Exc("RetryError", retry_error_text)]
    ELSE [do |-> "sleep", exc |-> NoExc]

(***************************************************************************)
(* answer_question.                                                        *)
(***************************************************************************)
attached_label ==
    <<"\n","A","t","t","a","c","h","e","d"," ","f","i","l","e"," ","p","a","t","h",":"," ">>

error_label == <<"E","r","r","o","r",":"," ">>

input_key == <<"i", "n", "p", "u", "t">>

\* if task_file_path: a str that is not empty
truthy(v) == v.type = "str" /\ Len(v.s) > 0

make_prompt(question, task_file_path) ==
    question \o (IF truthy(task_file_path)
                 THEN attached_label \o task_file_path.s \o <<"\n">>
                 ELSE <<>>)

\* except Exception as e
except_clause_only_api_errors(e) == isinstance(e, {"APIError", "GoogleAPICallError"})

except_clause(e) == isinstance(e, {"Exception"})

Questions == {<<"Q">>, <<"Q", " ">> \o FINAL_ANSWER \o <<" ", "a">>}

FilePaths == {NoneValue, Str(<<>>), Str(<<"/", "f">>)}

\* _setup_memory: the memory object made by the constructor, with no turns
ConversationBufferMemory == [id |-> 1, chat_history |-> <<>>]

\* initialize_agent(..., memory=mem) of the n-th call that gives the agent
\* loop a memory object of its own
initialize_agent_own_memory(n, mem) == [built |-> n, memory |-> mem.id + n]

\* initialize_agent(..., memory=mem): the n-th agent loop, holding mem
initialize_agent(n, mem) == [built |-> n, memory |-> mem.id]

\* the run of the agent loop ends well: its memory saves the turn (the input
\* and the output of the call); a run that raises saves nothing
save_context(mem, turn) == [mem EXCEPT !.chat_history = Append(@, turn)]

\* the final texts of the agent loop
AgentOutputs == {<<"4">>, <<"a", "\n">> \o FINAL_ANSWER \o <<" ", "4">>, <<"\"">>}

\* What the agent invocation hands back: agent.run gives the output text,
\* agent.invoke the dict of inputs and outputs; the runtime is external, and
\* a message object whose content is no text stands for any shape that
\* _clean_answer does not take.
Responses(o, p) ==
    (IF o = "gemini" THEN {Str(t) : t \in AgentOutputs}
     ELSE {Dict(<<<<input_key, Str(p)>>, <<output_key, Str(t)>>>>) : t \in AgentOutputs})
    \cup {Message(NoneValue)}

(***************************************************************************)
(* src/app.py: Python values of the batch runner.                          *)
(***************************************************************************)
\* a list and a tuple, each given by its elements
List(items) == [type |-> "list", items |-> items]
Tuple(items) == [type |-> "tuple", items |-> items]

\* bool(v), as "not v" and "if v" test it
py_bool(v) ==
    CASE v.type = "NoneType" -> FALSE
      [] v.type = "int" -> v.n # 0
      [] v.type = "str" -> Len(v.s) > 0
      [] OTHER -> Len(v.items) > 0

\* the values "for item in v" yields: the elements of a list or tuple, the
\* keys of a dict, the characters of a str
iter_items(v) ==
    CASE v.type = "dict" -> [i \in 1..Len(v.items) |-> Str(v.items[i][1])]
      [] v.type = "str" -> [i \in 1..Len(v.s) |-> Str(<<v.s[i]>>)]
      [] OTHER -> v.items

\* item.get(key): the value at key, None when the dict has no such key
dict_get(item, key) == IF has_key(item, key) THEN get_item(item, key) ELSE NoneValue

task_id_key == <<"t","a","s","k","_","i","d">>
question_key == <<"q","u","e","s","t","i","o","n">>
file_name_key == <<"f","i","l","e","_","n","a","m","e">>

\* required_keys = {"task_id", "question", "file_name"}
required_keys == {task_id_key, question_key, file_name_key}

(***************************************************************************)
(* The texts of src/app.py.                                                *)
(***************************************************************************)
\* type(v).__name__
type_name(v) ==
    CASE v.type = "str" -> <<"s","t","r">>
      [] v.type = "list" -> <<"l","i","s","t">>
      [] v.type = "tuple" -> <<"t","u","p","l","e">>
      [] v.type = "dict" -> <<"d","i","c","t">>
      [] v.type = "int" -> <<"i","n","t">>
      [] OTHER -> <<"N","o","n","e","T","y","p","e">>

(***************************************************************************)
(* load_questions_from_file.                                               *)
(***************************************************************************)
\* What load_questions_from_file returns for a state of questions.json. On
\* success it returns the list itself; on every error a pair of a message
\* and an empty list.
load_questions_from_file(f) ==
    CASE f.state = "missing" -> Tuple(<<Str(<<"E","r","r","o","r",":"," ","F","i","l","e"," ","'","q","u","e","s","t","i","o","n","s",".","j","s","o","n","'"," ","n","o","t"," ","f","o","u","n","d",".">>), List(<<>>)>>)
      [] f.state = "unreadable" ->
             Tuple(<<Str(<<"U","n","e","x","p","e","c","t","e","d"," ","e","r","r","o","r",":"," ">> \o <<"P","e","r","m","i","s","s","i","o","n"," ","d","e","n","i","e","d">>), List(<<>>)>>)
      [] f.state = "undecodable" ->
             Tuple(<<Str(<<"E","r","r","o","r"," ","d","e","c","o","d","i","n","g"," ","J","S","O","N",":"," ">> \o <<"E","x","p","e","c","t","i","n","g"," ","v","a","l","u","e">>), List(<<>>)>>)
      [] OTHER ->
             IF f.data.type # "list"
             THEN Tuple(<<Str(<<"E","r","r","o","r",":"," ","J","S","O","N"," ","f","o","r","m","a","t"," ","i","s"," ","i","n","v","a","l","i","d","."," ","E","x","p","e","c","t","e","d"," ","a"," ","l","i","s","t"," ","o","f"," ","q","u","e","s","t","i","o","n"," ","o","b","j","e","c","t","s",".">>), List(<<>>)>>)
             \* required_keys.issubset(q): for a dict the keys are looked up; a
             \* str is iterated character by character and holds none of the names
             ELSE IF ~(\A i \in 1..Len(f.data.items) :
                          LET q == f.data.items[i]
                          IN  IF q.type = "dict"
                              THEN \A key \in required_keys : has_key(q, key)
                              ELSE FALSE)
                  THEN Tuple(<<Str(<<"E","r","r","o","r",":"," ","S","o","m","e"," ","q","u","e","s","t","i","o","n","s"," ","a","r","e"," ","m","i","s","s","i","n","g"," ","r","e","q","u","i","r","e","d"," ","f","i","e","l","d","s",".">>), List(<<>>)>>)
                  ELSE f.data

(***************************************************************************)
(* run_and_submit_all: inputs.                                             *)
(***************************************************************************)
\* number of records in a question list
MaxItems == 2

Record(task_id, question, file_name) ==
    Dict(<<<<task_id_key, task_id>>, <<question_key, question>>,
           <<file_name_key, file_name>>>>)

RECURSIVE ItemSeqs(_)
ItemSeqs(n) ==
    IF n = 0 THEN {<<>>}
    \* the records a question list is made of: complete ones, with and without
    \* an attached file, ones lacking a key, ones with a null or empty value,
    \* and an element that is no record at all
    ELSE LET S == ItemSeqs(n - 1) IN S \cup {Append(q, it) : q \in S, it \in ({ Record(Str(<<"t", "1">>), Str(<<"Q">>), Str(<<>>)), Record(Str(<<"t", "2">>), Str(<<"Q">>), Str(<<"f", ".", "t", "x", "t">>)), Dict(<<<<question_key, Str(<<"Q">>)>>, <<file_name_key, Str(<<>>)>>>>), Dict(<<<<task_id_key, Str(<<"t", "3">>)>>, <<file_name_key, Str(<<>>)>>>>), Dict(<<<<task_id_key, Str(<<"t", "4">>)>>, <<question_key, Str(<<"Q">>)>>>>), Record(NoneValue, Str(<<"Q">>), Str(<<>>)), Record(Str(<<>>), Str(<<"Q">>), Str(<<>>)), Record(Str(<<"t", "5">>), NoneValue, Str(<<>>)), Str(<<"x">>) })}

\* the JSON values a response body or the local file can decode to
JsonValues ==
    {List(q) : q \in ItemSeqs(MaxItems)}
    \cup {NoneValue, IntValue(42), Dict(<<>>),
          Dict(<<<<<<"d","e","t","a","i","l">>, Str(<<"x">>)>>>>)}

\* the outcomes of requests.get(questions_url, timeout=35)
FetchOutcomes ==
    {[kind |-> "response", status_code |-> 200, body |-> [decodes |-> TRUE, data |-> v]] :
         v \in JsonValues}
    \cup {[kind |-> "response", status_code |-> 200, body |-> [decodes |-> FALSE]],
          [kind |-> "response", status_code |-> 429, body |-> [decodes |-> FALSE]],
          [kind |-> "response", status_code |-> 500, body |-> [decodes |-> FALSE]],
          [kind |-> "raised"]}

agent_names == [gemini |-> <<"G","e","m","i","n","i"," ","A","g","e","n","t">>, openai |-> <<"O","p","e","n","A","I"," ","A","g","e","n","t">>]



\* lines 171-177: the status text of a successful submission
final_status(result_data) ==
    \* result_data.get(key, default)
    LET dict_get_default(d, key, default) ==
            IF has_key(d, key) THEN get_item(d, key) ELSE default
    IN
    <<"S","u","b","m","i","s","s","i","o","n"," ","S","u","c","c","e","s","s","f","u","l","!","\n","U","s","e","r",":"," ">>
    \o py_str(dict_get(result_data, <<"u","s","e","r","n","a","m","e">>))
    \o <<"\n","O","v","e","r","a","l","l"," ","S","c","o","r","e",":"," ">>
    \o py_str(dict_get_default(result_data, <<"s","c","o","r","e">>, Str(<<"N","/","A">>)))
    \o <<"%"," ","(">>
    \o py_str(dict_get_default(result_data, <<"c","o","r","r","e","c","t","_","c","o","u","n","t">>, Str(<<"?">>)))
    \o <<"/">>
    \o py_str(dict_get_default(result_data, <<"t","o","t","a","l","_","a","t","t","e","m","p","t","e","d">>, Str(<<"?">>)))
    \o <<" ","c","o","r","r","e","c","t",")","\n","M","e","s","s","a","g","e",":"," ">>
    \o py_str(dict_get_default(result_data, <<"m","e","s","s","a","g","e">>, Str(<<"N","o"," ","m","e","s","s","a","g","e"," ","r","e","c","e","i","v","e","d",".">>)))

(***************************************************************************)
(* run_and_submit_all: the steps of the loop body.                         *)
(***************************************************************************)
\* the test with "task_id is None" in place of "not task_id"
skip_item_null_only(task_id, question_text) ==
    task_id.type = "NoneType" \/ question_text.type = "NoneType"

\* if not task_id or question_text is None: continue
skip_item(task_id, question_text) ==
    ~py_bool(task_id) \/ question_text.type = "NoneType"

\* unique_name and file_path of a downloaded file; n stands for the hex of
\* the fresh uuid4
make_file_path(task_id, file_name, n) ==
    LET \* os.path.splitext(name)[-1]: from the last dot of the last path
        \* component, unless only dots stand before it
        splitext_ext(name) ==
            LET sep == IF \E i \in 1..Len(name) : name[i] = "/"
                       THEN CHOOSE i \in 1..Len(name) :
                                name[i] = "/" /\ \A j \in (i + 1)..Len(name) : name[j] # "/"
                       ELSE 0
                dot == IF \E i \in (sep + 1)..Len(name) : name[i] = "."
                       THEN CHOOSE i \in (sep + 1)..Len(name) :
                                name[i] = "." /\ \A j \in (i + 1)..Len(name) : name[j] # "."
                       ELSE 0
            IN  IF dot > 0 /\ \E i \in (sep + 1)..(dot - 1) : name[i] # "."
                THEN Slice(name, dot, Len(name))
                ELSE <<>>
        ext == IF Len(splitext_ext(file_name)) > 0 THEN splitext_ext(file_name) ELSE <<".","d","a","t">>
    IN  <<"/","t","m","p">> \o <<"/">> \o py_str(task_id) \o <<"_">> \o decimal(n) \o ext

\* the recording that leaves out an answer that starts with "Error: "
record_answer_drop_errors(outcome, task_id, question_text, payload, log) ==
    IF ~outcome.raised /\ startswith(outcome.value, error_label)
    THEN [payload |-> payload, log |-> log]
    ELSE [payload |-> Append(payload, [task_id |-> task_id,
                                       submitted_answer |-> outcome.value]),
          log |-> Append(log, [task_id |-> task_id, question |-> question_text,
                               submitted_answer |-> outcome.value])]

\* the two lists after the try block around answer_question
record_answer(outcome, task_id, question_text, payload, log) ==
    IF outcome.raised
    THEN [payload |-> payload,
          log |-> Append(log, [task_id |-> task_id, question |-> question_text,
                               submitted_answer |-> <<"A","G","E","N","T"," ","E","R","R","O","R",":"," ">> \o outcome.msg])]
    ELSE [payload |-> Append(payload, [task_id |-> task_id,
                                       submitted_answer |-> outcome.value]),
          log |-> Append(log, [task_id |-> task_id, question |-> question_text,
                               submitted_answer |-> outcome.value])]

(***************************************************************************)
(* src/tools: the tool adapters.                                           *)
(***************************************************************************)
\* needle in text, for two str
is_in(needle, text) ==
    \E i \in 1..(Len(text) - Len(needle) + 1) : MatchAt(text, i, needle)

\* str(Path(p)) on a POSIX system: empty and "." components are dropped, a
\* leading slash is kept (two leading slashes stay two), "." stands for an
\* empty path
pathlib_str(p) ==
    LET \* s.split(sep) for a one-character separator
        RECURSIVE split_sep(_, _)
        split_sep(s, sep) ==
            LET n == FirstOf(s, 1, {sep})
            IN  IF n > Len(s) THEN <<s>>
                ELSE <<Slice(s, 1, n - 1)>> \o split_sep(Slice(s, n + 1, Len(s)), sep)
        \* sep.join(parts)
        RECURSIVE join(_, _)
        join(sep, ps) ==
            IF Len(ps) = 0 THEN <<>>
            ELSE IF Len(ps) = 1 THEN ps[1]
            ELSE ps[1] \o sep \o join(sep, Tail(ps))
        parts == SelectSeq(split_sep(p, "/"), LAMBDA c : c # <<>> /\ c # <<".">>)
        root == IF startswith(p, <<"/", "/">>) /\ ~startswith(p, <<"/", "/", "/">>)
                THEN <<"/", "/">>
                ELSE IF startswith(p, <<"/">>) THEN <<"/">> ELSE <<>>
        text == root \o join(<<"/">>, parts)
    IN  IF Len(text) = 0 THEN <<".">> ELSE text

\* str() of the OSError that open() and os.stat() raise for a path
os_error_text(errno, path) ==
    (CASE errno = "ENOENT" -> <<"[","E","r","r","n","o"," ","2","]"," ","N","o"," ","s","u","c","h"," ","f","i","l","e"," ","o","r"," ","d","i","r","e","c","t","o","r","y",":"," ">>
       [] errno = "EISDIR" -> <<"[","E","r","r","n","o"," ","2","1","]"," ","I","s"," ","a"," ","d","i","r","e","c","t","o","r","y",":"," ">>
       [] OTHER -> <<"[","E","r","r","n","o"," ","1","3","]"," ","P","e","r","m","i","s","s","i","o","n"," ","d","e","n","i","e","d",":"," ">>)
    \o repr_str(path)

\* all([parsed_url.scheme, parsed_url.netloc]) for urlparse(url)
has_scheme_and_netloc(url) ==
    LET colon == FirstOf(url, 1, {":"})
    IN  /\ colon > 1 /\ colon <= Len(url)
        /\ \A i \in 1..(colon - 1) : url[i] \in ({"a","b","c","d","e","f","g","h","i","j","k","l","m","n","o","p","q","r","s","t", "u","v","w","x","y","z","0","1","2","3","4","5","6","7","8","9","+","-","."})
        /\ url[1] \notin {"0","1","2","3","4","5","6","7","8","9","+","-","."}
        /\ MatchAt(url, colon + 1, <<"/", "/">>)
        /\ FirstOf(url, colon + 3, {"/", "?", "#"}) > colon + 3

use_this == <<"."," ","Y","o","u"," ","c","a","n"," ","u","s","e"," ","t","h","i","s"," ","t","o"," ","p","r","o","c","e","s","s"," ","a","n","s","w","e","r",".">>

\* the message of a fault of an external library or service
fault_text == <<"b","o","o","m">>

\* what the external library or service hands back when it works
payload_text == <<"d","a","t","a">>


\* the error of open()/Image.open()/pd.read_* at path, "none" when it opens
open_error(path, env) ==
    CASE env.file = "missing" -> os_error_text("ENOENT", path)
      [] env.file = "denied" -> os_error_text("EACCES", path)
      [] env.file = "directory" -> os_error_text("EISDIR", path)
      [] OTHER -> <<>>

\* file_tools.py lines 6-24
read_file(filepath, env) ==
    IF env.file = "missing"
    THEN Return(Str(<<"E","r","r","o","r",":"," ","F","i","l","e"," ","n","o","t"," ","f","o","u","n","d"," ","a","t"," ">> \o filepath))
    ELSE IF Len(open_error(filepath, env)) > 0
    THEN Return(Str(<<"E","r","r","o","r"," ","r","e","a","d","i","n","g"," ","f","i","l","e"," ">> \o filepath \o <<":", " ">>
                    \o open_error(filepath, env)))
    ELSE IF env.service = "fault"
    THEN Return(Str(<<"E","r","r","o","r"," ","r","e","a","d","i","n","g"," ","f","i","l","e"," ">> \o filepath \o <<":", " ">> \o fault_text))
    ELSE Return(Str(payload_text))

\* file_tools.py lines 27-50
extract_text_from_image(image_path, env) ==
    IF Len(open_error(image_path, env)) > 0
    THEN Return(Str(<<"E","r","r","o","r"," ","e","x","t","r","a","c","t","i","n","g"," ","t","e","x","t"," ","f","r","o","m"," ","i","m","a","g","e",":"," ">> \o open_error(image_path, env)))
    ELSE IF env.service = "fault"
    THEN Return(Str(<<"E","r","r","o","r"," ","e","x","t","r","a","c","t","i","n","g"," ","t","e","x","t"," ","f","r","o","m"," ","i","m","a","g","e",":"," ">> \o fault_text))
    ELSE Return(Str(<<"E","x","t","r","a","c","t","e","d"," ","t","e","x","t"," ","f","r","o","m"," ","i","m","a","g","e",":","\n","\n">> \o payload_text \o use_this))

\* file_tools.py lines 52-81
read_csv_file(path, env) ==
    IF Len(open_error(path, env)) > 0
    THEN Return(Str(<<"E","r","r","o","r"," ","a","n","a","l","y","z","i","n","g"," ","C","S","V"," ","f","i","l","e",":"," ">> \o open_error(path, env)))
    ELSE IF env.service = "fault"
    THEN Return(Str(<<"E","r","r","o","r"," ","a","n","a","l","y","z","i","n","g"," ","C","S","V"," ","f","i","l","e",":"," ">> \o fault_text))
    ELSE Return(Str(<<"E","x","t","r","a","c","t","e","d"," ","d","a","t","a"," ","f","r","o","m"," ","t","a","b","l","e",":","\n","\n">> \o payload_text \o use_this))

\* file_tools.py lines 84-113
read_excel_file(path, env) ==
    IF Len(open_error(path, env)) > 0
    THEN Return(Str(<<"E","r","r","o","r"," ","a","n","a","l","y","z","i","n","g"," ","E","x","c","e","l"," ","f","i","l","e",":"," ">> \o open_error(path, env)))
    ELSE IF env.service = "fault"
    THEN Return(Str(<<"E","r","r","o","r"," ","a","n","a","l","y","z","i","n","g"," ","E","x","c","e","l"," ","f","i","l","e",":"," ">> \o fault_text))
    ELSE Return(Str(<<"E","x","t","r","a","c","t","e","d"," ","d","a","t","a"," ","f","r","o","m"," ","t","a","b","l","e",":","\n","\n">> \o payload_text \o use_this))

\* speech_tools.py lines 9-30: exists(), is_file() and stat() stand outside
\* the try block
audio_transcriber(audio, env) ==
    LET audio_path == pathlib_str(audio)
    IN  IF env.file = "denied"
        THEN Raise("OSError", os_error_text("EACCES", audio_path))
        ELSE IF env.file = "missing"
        THEN Return(Str(<<"E","r","r","o","r",":"," ","F","i","l","e"," ","n","o","t"," ","f","o","u","n","d"," ","a","t"," ">> \o audio_path))
        ELSE IF env.file = "directory"
        THEN Return(Str(<<"E","r","r","o","r",":"," ">> \o audio_path \o <<" ","i","s"," ","n","o","t"," ","a"," ","f","i","l","e">>))
        ELSE IF env.file = "large"
        THEN Return(Str(<<"E","r","r","o","r",":"," ","A","u","d","i","o"," ","f","i","l","e"," ","i","s"," ","t","o","o"," ","l","a","r","g","e"," ","(","m","a","x"," ","2","5","M","B",")">>))
        ELSE IF env.service = "fault"
        THEN Return(Str(<<"E","r","r","o","r"," ","t","r","a","n","s","c","r","i","b","i","n","g"," ","a","u","d","i","o",":"," ">> \o fault_text))
        ELSE Return(Str(<<"E","x","t","r","a","c","t","e","d"," ","d","a","t","a"," ","f","r","o","m"," ","a","u","d","i","o",":","\n","\n">> \o payload_text \o use_this))

\* chess_recognition.py lines 16-72
chess_board_recognition(image_path, env) ==
    LET path == pathlib_str(image_path)
    IN  IF Len(open_error(path, env)) > 0
        THEN Return(Str(<<"I"," ","c","a","n","'","t"," ","r","e","c","o","g","n","i","z","e"," ","(","c","h","e","s","s"," ","r","e","c","o","g","n","i","t","i","o","n"," ","e","r","r","o","r",":"," ">>
                        \o open_error(path, env) \o <<")">>))
        ELSE IF env.service = "fault"
        THEN Return(Str(<<"I"," ","c","a","n","'","t"," ","r","e","c","o","g","n","i","z","e"," ","(","c","h","e","s","s"," ","r","e","c","o","g","n","i","t","i","o","n"," ","e","r","r","o","r",":"," ">>
                        \o fault_text \o <<")">>))
        ELSE Return(Str(<<"R","e","c","o","g","n","i","t","i","o","n","a","l"," ","r","e","s","u","l","t",","," ","u","s","e"," ","i","t"," ","f","o","r"," ","a","l","g","e","b","r","a","i","c"," ","f","o","r","m","a","t"," ","a","n","s","w","e","r",":"," ">>
                        \o payload_text \o <<" ","w"," ","-"," ","-"," ","0"," ","1">>))

\* search_tools.py lines 9-27
search_web(query, env) ==
    IF env.service = "fault" THEN Return(Str(<<"E","r","r","o","r"," ","s","e","a","r","c","h","i","n","g"," ","w","e","b",":"," ">> \o fault_text))
    ELSE IF env.service = "empty" THEN Return(Str(<<"N","o"," ","r","e","s","u","l","t","s"," ","f","o","u","n","d",".">>))
    ELSE Return(Str(payload_text))

\* search_tools.py lines 30-45
search_wikipedia(query, env) ==
    IF env.service = "fault" THEN Return(Str(<<"E","r","r","o","r"," ","s","e","a","r","c","h","i","n","g"," ","W","i","k","i","p","e","d","i","a",":"," ">> \o fault_text))
    ELSE Return(Str(payload_text))

\* search_tools.py lines 47-59: no try block, and the value returned is a dict
arvix_search(query, env) ==
    IF env.service = "fault" THEN Raise("Exception", fault_text)
    ELSE Return(Dict(<<<<<<"a","r","v","i","x","_","r","e","s","u","l","t","s">>,
                        Str(IF env.service = "empty" THEN <<>> ELSE payload_text)>>>>))

\* search_tools.py lines 62-81: the except clause calls traceback.print_exc(),
\* and the module does not import traceback
search_wikipedia_info(query, env) ==
    IF env.service = "fault" THEN Raise("NameError", <<"n","a","m","e"," ","'","t","r","a","c","e","b","a","c","k","'"," ","i","s"," ","n","o","t"," ","d","e","f","i","n","e","d">>)
    ELSE IF env.service = "empty"
    THEN Return(Str(<<"N","o"," ","W","i","k","i","p","e","d","i","a"," ","i","n","f","o"," ","f","o","r"," ","'">> \o query \o <<"'", ".">>))
    ELSE Return(Str(<<"W","i","k","i","p","e","d","i","a"," ","s","u","m","m","a","r","y"," ","f","o","r"," ","'">> \o query \o <<"'", ":", "\n">>
                    \o payload_text))

\* video_tools.py lines 11-98: yt_dlp is not imported, so the name lookup at
\* line 44 raises NameError inside the try block
analyze_youtube_video(url, env) ==
    IF ~has_scheme_and_netloc(url)
    THEN Return(Str(<<"P","l","e","a","s","e"," ","p","r","o","v","i","d","e"," ","a"," ","v","a","l","i","d"," ","v","i","d","e","o"," ","U","R","L"," ","w","i","t","h"," ","h","t","t","p",":","/","/"," ","o","r"," ","h","t","t","p","s",":","/","/"," ","p","r","e","f","i","x",".">>))
    ELSE IF ~is_in(<<"y","o","u","t","u","b","e",".","c","o","m">>, url) /\ ~is_in(<<"y","o","u","t","u",".","b","e">>, url)
    THEN Return(Str(<<"O","n","l","y"," ","Y","o","u","T","u","b","e"," ","v","i","d","e","o","s"," ","a","r","e"," ","s","u","p","p","o","r","t","e","d"," ","a","t"," ","t","h","i","s"," ","t","i","m","e",".">>))
    ELSE Return(Str(<<"E","r","r","o","r"," ","a","n","a","l","y","z","i","n","g"," ","v","i","d","e","o",":"," ">> \o <<"n","a","m","e"," ","'","y","t","_","d","l","p","'"," ","i","s"," ","n","o","t"," ","d","e","f","i","n","e","d">>))

\* db_tools.py lines 8-25: the rows, or a list of one pair on a fault
read_from_db(query, env) ==
    IF env.service = "fault"
    THEN Return(List(<<Tuple(<<Str(<<"E","r","r","o","r">>), Str(fault_text)>>)>>))
    ELSE Return(List(IF env.service = "empty" THEN <<>>
                     ELSE <<Tuple(<<Str(payload_text)>>)>>))

\* db_tools.py lines 27-44
write_to_db(query, env) ==
    IF env.service = "fault" THEN Return(Str(<<"E","r","r","o","r",":"," ">> \o fault_text))
    ELSE Return(Str(<<"Q","u","e","r","y"," ","e","x","e","c","u","t","e","d"," ","s","u","c","c","e","s","s","f","u","l","l","y",".">>))

\* the tools handed to the agent loop or exported by the package
(***************************************************************************)
(* src/tools/text_tools.py: is_reversed_text and fix_reversed_text.        *)
(***************************************************************************)
\* text[::-1]
reverse(text) == [i \in 1..Len(text) |-> text[Len(text) + 1 - i]]

\* re.findall(reversed_patterns[k], text), as the set of the texts matched.
\* Each of the three patterns stands between two \b and consists of word
\* characters only, so a match is a whole run of word characters: one of
\* three or more characters (k = 1), a capital followed by small letters
\* (k = 2), four digits (k = 3).
re_findall(k, text) ==
    LET lower == {"a","b","c","d","e","f","g","h","i","j","k","l","m",
                  "n","o","p","q","r","s","t","u","v","w","x","y","z"}
        upper == {"A","B","C","D","E","F","G","H","I","J","K","L","M",
                  "N","O","P","Q","R","S","T","U","V","W","X","Y","Z"}
        digit == {Digits[d] : d \in 1..Len(Digits)}
        word == lower \cup upper \cup digit \cup {"_"}
        runs == {r \in (1..Len(text)) \X (1..Len(text)) :
                    /\ r[1] <= r[2]
                    /\ \A x \in r[1]..r[2] : text[x] \in word
                    /\ r[1] = 1 \/ text[r[1] - 1] \notin word
                    /\ r[2] = Len(text) \/ text[r[2] + 1] \notin word}
        fits(m) ==
            CASE k = 1 -> Len(m) >= 3
              [] k = 2 -> /\ Len(m) >= 2
                          /\ m[1] \in upper
                          /\ \A x \in 2..Len(m) : m[x] \in lower
              [] OTHER -> Len(m) = 4 /\ \A x \in 1..4 : m[x] \in digit
    IN  {m \in {Slice(text, r[1], r[2]) : r \in runs} : fits(m)}

\* the test with "match[::-1] in text" alone
is_reversed_text_without_absence_test(text) ==
    \E k \in 1..3 : \E match \in re_findall(k, text) : is_in(reverse(match), text)

\* is_reversed_text: True at the first match whose reversal occurs in text
\* and that does not occur in text itself
is_reversed_text(text) ==
    \E k \in 1..3 : \E match \in re_findall(k, text) :
        is_in(reverse(match), text) /\ ~is_in(match, text)

fix_reversed_text(text) == IF is_reversed_text(text) THEN reverse(text) ELSE text

ToolNames ==
    {"search_web", "search_wikipedia", "search_wikipedia_info", "arvix_search",
     "read_file", "read_csv_file", "read_excel_file", "extract_text_from_image",
     "audio_transcriber", "chess_board_recognition", "analyze_youtube_video",
     "read_from_db", "write_to_db"}

\* the call of a tool by its name
call_tool(name, a, env) ==
    CASE name = "search_web" -> search_web(a, env)
      [] name = "search_wikipedia" -> search_wikipedia(a, env)
      [] name = "search_wikipedia_info" -> search_wikipedia_info(a, env)
      [] name = "arvix_search" -> arvix_search(a, env)
      [] name = "read_file" -> read_file(a, env)
      [] name = "read_csv_file" -> read_csv_file(a, env)
      [] name = "read_excel_file" -> read_excel_file(a, env)
      [] name = "extract_text_from_image" -> extract_text_from_image(a, env)
      [] name = "audio_transcriber" -> audio_transcriber(a, env)
      [] name = "chess_board_recognition" -> chess_board_recognition(a, env)
      [] name = "analyze_youtube_video" -> analyze_youtube_video(a, env)
      [] name = "read_from_db" -> read_from_db(a, env)
      [] name = "fix_reversed_text" -> Return(Str(fix_reversed_text(a)))
      [] OTHER -> write_to_db(a, env)

(***************************************************************************)
(* Initial states.                                                         *)
(***************************************************************************)
NormalizerOff ==
    /\ raw = Str(<<>>)
    /\ npc = "off"
    /\ trace = NoTrace
    /\ result = Return(<<>>)
    /\ second = Return(<<>>)

AgentOff ==
    /\ orch = "gemini"
    /\ apc = "off"
    /\ calls = 0
    /\ prompt = <<>>
    /\ attempts = 0
    /\ sleeps = <<>>
    /\ response = NoneValue
    /\ failure = NoExc
    /\ exc = NoExc
    /\ ret = Return(<<>>)
    /\ memory = ConversationBufferMemory
    \* no agent loop has been built
    /\ agent = [built |-> 0, memory |-> 0]

BatchOff ==
    /\ bpc = "off"
    /\ fetched = [kind |-> "none"]
    \* the local file was not looked at
    /\ qfile = ([state |-> "unread"])
    /\ questions_data = NoneValue
    /\ idx = 0
    /\ file_path = NoneValue
    /\ answers_payload = <<>>
    /\ results_log = <<>>
    /\ delays = <<>>
    /\ posts = 0
    /\ status = Return(<<>>)

ToolsOff ==
    /\ tpc = "off"
    /\ tool = "none"
    /\ arg = <<>>
    /\ tenv = [file |-> "file", service |-> "ok"]
    /\ tout = Return(NoneValue)

Init ==
    /\ raw \in RawValues
    /\ npc = "start"
    /\ trace = NoTrace
    /\ result = Return(<<>>)
    /\ second = Return(<<>>)
    /\ AgentOff
    /\ BatchOff
    /\ ToolsOff

InitAgent ==
    /\ NormalizerOff
    /\ orch \in {"gemini", "openai"}
    /\ apc = "idle"
    /\ calls = 0
    /\ prompt = <<>>
    /\ attempts = 0
    /\ sleeps = <<>>
    /\ response = NoneValue
    /\ failure = NoExc
    /\ exc = NoExc
    /\ ret = Return(<<>>)
    /\ memory = ConversationBufferMemory
    \* no agent loop has been built
    /\ agent = [built |-> 0, memory |-> 0]
    /\ BatchOff
    /\ ToolsOff

InitBatch ==
    /\ NormalizerOff
    /\ AgentOff
    /\ bpc = "start"
    /\ fetched = [kind |-> "none"]
    /\ qfile = ([state |-> "unread"])
    /\ questions_data = NoneValue
    /\ idx = 0
    /\ file_path = NoneValue
    /\ answers_payload = <<>>
    /\ results_log = <<>>
    /\ delays = <<>>
    /\ posts = 0
    /\ status = Return(<<>>)
    /\ ToolsOff

InitTools ==
    /\ NormalizerOff
    /\ AgentOff
    /\ BatchOff
    /\ tpc = "called"
    /\ tool \in ToolNames
    \* the texts a tool is called with: file paths, URLs, a query
    /\ arg \in ({ <<"f",".","t","x","t">>, <<".","/","f",".","t","x","t">>, <<"d","/","/","f",".","t","x","t">>, <<"/","t","m","p","/","f",".","t","x","t">>, <<"i","t","'","s">>, <<"h","t","t","p","s",":","/","/","y","o","u","t","u",".","b","e","/","x">>, <<"h","t","t","p","s",":","/","/","a",".","b","/","x">>, <<"q">> })
    \* The file system as the call meets it at the path given: file is "missing",
    \* "denied" (a directory on the way may not be searched), "directory",
    \* "large" (a file over 25 MB) or "file"; service tells whether the external
    \* library or service behind the tool works ("ok"), finds nothing ("empty")
    \* or raises ("fault").
    /\ tenv \in ([file : {"missing", "denied", "directory", "large", "file"}, service : {"ok", "empty", "fault"}])
    /\ tout = Return(NoneValue)

(***************************************************************************)
(* The normalizer run: _clean_answer on a value, then on its own result.   *)
(***************************************************************************)
Clean ==
    /\ npc = "start"
    /\ LET c == clean_answer_steps(raw)
       IN  /\ trace' = c.trace
           /\ result' = c.outcome
    /\ npc' = "done"
    /\ UNCHANGED <<raw, second>>
    /\ UNCHANGED avars
    /\ UNCHANGED bvars
    /\ UNCHANGED tvars

Reclean ==
    /\ npc = "done"
    /\ ~result.raised
    /\ second' = clean_answer(Str(result.value))
    /\ npc' = "again"
    /\ UNCHANGED <<raw, trace, result>>
    /\ UNCHANGED avars
    /\ UNCHANGED bvars
    /\ UNCHANGED tvars

Next == Clean \/ Reclean

Spec == Init /\ [][Next]_vars

(***************************************************************************)
(* One answer_question call, step by step.                                 *)
(***************************************************************************)
\* the call is made: context_info and prompt are built
Call ==
    /\ apc \in {"idle", "returned", "propagated"}
    /\ calls < MaxCalls
    /\ \E q \in Questions : \E f \in FilePaths : prompt' = make_prompt(q, f)
    /\ calls' = calls + 1
    /\ attempts' = 0
    /\ sleeps' = <<>>
    /\ response' = NoneValue
    /\ failure' = NoExc
    /\ exc' = NoExc
    /\ ret' = Return(<<>>)
    /\ apc' = "init"
    /\ UNCHANGED <<orch, memory, agent>>
    /\ UNCHANGED nvars
    /\ UNCHANGED bvars
    /\ UNCHANGED tvars

\* initialize_agent(...) returns the agent
InitializeAgent ==
    /\ apc = "init"
    /\ agent' = initialize_agent(calls, memory)
    /\ apc' = "attempt"
    /\ UNCHANGED <<orch, calls, prompt, attempts, sleeps, response, failure, exc, ret, memory>>
    /\ UNCHANGED nvars
    /\ UNCHANGED bvars
    /\ UNCHANGED tvars

\* initialize_agent(...) raises
InitializeAgentFails ==
    /\ apc = "init"
    /\ exc' = Exc("ValueError", <<"n","o"," ","t","o","o","l","s">>)
    /\ apc' = "except"
    /\ UNCHANGED <<orch, calls, prompt, attempts, sleeps, response, failure, ret, memory, agent>>
    /\ UNCHANGED nvars
    /\ UNCHANGED bvars
    /\ UNCHANGED tvars

\* an attempt of _run_agent_with_retry returns a value
AttemptReturns ==
    /\ apc = "attempt"
    /\ attempts' = attempts + 1
    /\ response' \in Responses(orch, prompt)
    /\ memory' = IF agent.memory = memory.id THEN save_context(memory, calls) ELSE memory
    /\ apc' = "normalize"
    /\ UNCHANGED <<orch, calls, prompt, sleeps, failure, exc, ret, agent>>
    /\ UNCHANGED nvars
    /\ UNCHANGED bvars
    /\ UNCHANGED tvars

\* an attempt of _run_agent_with_retry raises
AttemptFails ==
    /\ apc = "attempt"
    /\ attempts' = attempts + 1
    /\ \E cls \in FailureClasses :
           LET e == Exc(cls, FailureMsg(cls, attempts'))
               d == after_failure(orch, e, attempts')
           IN  /\ failure' = e
               /\ exc' = IF d.do = "sleep" THEN exc ELSE d.exc
               /\ apc' = IF d.do = "sleep" THEN "sleep" ELSE "except"
    /\ UNCHANGED <<orch, calls, prompt, sleeps, response, ret, memory, agent>>
    /\ UNCHANGED nvars
    /\ UNCHANGED bvars
    /\ UNCHANGED tvars

\* the fixed wait before the next attempt
Sleep ==
    /\ apc = "sleep"
    /\ sleeps' = Append(sleeps, wait_fixed(orch))
    /\ apc' = "attempt"
    /\ UNCHANGED <<orch, calls, prompt, attempts, response, failure, exc, ret, memory, agent>>
    /\ UNCHANGED nvars
    /\ UNCHANGED bvars
    /\ UNCHANGED tvars

\* the return that hands only the output entry of a dict to _clean_answer
Normalize_output_only ==
    /\ apc = "normalize"
    /\ LET c == clean_answer(IF response.type = "dict" /\ has_key(response, output_key)
                             THEN get_item(response, output_key)
                             ELSE response)
       IN  IF c.raised
           THEN /\ exc' = Exc(c.exc, c.msg)
                /\ apc' = "except"
                /\ ret' = ret
           ELSE /\ ret' = Return(c.value)
                /\ apc' = "returned"
                /\ exc' = exc
    /\ UNCHANGED <<orch, calls, prompt, attempts, sleeps, response, failure, memory, agent>>
    /\ UNCHANGED nvars
    /\ UNCHANGED bvars
    /\ UNCHANGED tvars

\* return self._clean_answer(response)
Normalize ==
    /\ apc = "normalize"
    /\ LET c == clean_answer(response)
       IN  IF c.raised
           THEN /\ exc' = Exc(c.exc, c.msg)
                /\ apc' = "except"
                /\ ret' = ret
           ELSE /\ ret' = Return(c.value)
                /\ apc' = "returned"
                /\ exc' = exc
    /\ UNCHANGED <<orch, calls, prompt, attempts, sleeps, response, failure, memory, agent>>
    /\ UNCHANGED nvars
    /\ UNCHANGED bvars
    /\ UNCHANGED tvars

\* except Exception as e: return f"Error: {str(e)}"; an exception the clause
\* does not catch leaves answer_question
HandleException ==
    /\ apc = "except"
    /\ IF except_clause(exc)
       THEN /\ ret' = Return(error_label \o exc.msg)
            /\ apc' = "returned"
       ELSE /\ ret' = Raise(exc.cls, exc.msg)
            /\ apc' = "propagated"
    /\ UNCHANGED <<orch, calls, prompt, attempts, sleeps, response, failure, exc, memory, agent>>
    /\ UNCHANGED nvars
    /\ UNCHANGED bvars
    /\ UNCHANGED tvars

NextAgent ==
    \/ Call
    \/ InitializeAgent
    \/ InitializeAgentFails
    \/ AttemptReturns
    \/ AttemptFails
    \/ Sleep
    \/ Normalize
    \/ HandleException

SpecAgent == InitAgent /\ [][NextAgent]_vars

(***************************************************************************)
(* run_and_submit_all, step by step.                                       *)
(***************************************************************************)
\* time.sleep(10) after every answered question

DataFrame(rows) == [type |-> "DataFrame", rows |-> rows]

\* the pair run_and_submit_all returns
StatusPair(text, table) == Return([status |-> text, table |-> table])

\* lines 71-81: the agent is built and the user name is read
Begin ==
    /\ bpc = "start"
    \* selected_agent_name: one of the two names of the drop-down, or another;
    \* profile: gr.OAuthProfile | None
    /\ \E name \in {agent_names.gemini, agent_names.openai,
                     <<"O","t","h","e","r"," ","A","g","e","n","t">>} :
       \E built \in BOOLEAN :
       \E profile \in {NoneValue, [type |-> "OAuthProfile", username |-> <<"u", " ">>]} :
           IF name \notin {agent_names.gemini, agent_names.openai}
           THEN /\ status' = Raise("ValueError", <<"U","n","k","n","o","w","n"," ","a","g","e","n","t",":"," ">> \o name)
                /\ bpc' = "raised"
                /\ orch' = orch
           ELSE IF ~built
           THEN /\ status' = Raise("Exception", <<"a","p","i"," ","k","e","y">>)
                /\ bpc' = "raised"
                /\ orch' = orch
           ELSE IF profile.type = "NoneType"
           THEN /\ status' = Raise("AttributeError", <<"'","N","o","n","e","T","y","p","e","'"," ","o","b","j","e","c","t"," ","h","a","s"," ","n","o"," ","a","t","t","r","i","b","u","t","e"," ","'","u","s","e","r","n","a","m","e","'">>)
                /\ bpc' = "raised"
                /\ orch' = IF name = agent_names.gemini THEN "gemini" ELSE "openai"
           ELSE /\ status' = status
                /\ bpc' = "fetch"
                /\ orch' = IF name = agent_names.gemini THEN "gemini" ELSE "openai"
    /\ UNCHANGED <<fetched, qfile, questions_data, idx, file_path, answers_payload,
                   results_log, delays, posts>>
    /\ UNCHANGED <<apc, calls, prompt, attempts, sleeps, response, failure, exc, ret,
                   memory, agent>>
    /\ UNCHANGED nvars
    /\ UNCHANGED tvars

\* lines 102-104, with questions_data assigned: the emptiness test and the
\* len() of the print, both inside the try block
after_fetch(qd) ==
    IF ~py_bool(qd) THEN [to |-> "returned", status |-> StatusPair(<<"F","e","t","c","h","e","d"," ","q","u","e","s","t","i","o","n","s"," ","l","i","s","t"," ","i","s"," ","e","m","p","t","y"," ","o","r"," ","i","n","v","a","l","i","d"," ","f","o","r","m","a","t",".">>, NoneValue)]
    \* len(v) raises TypeError for a value that has no length
    ELSE IF qd.type \notin {"str", "list", "tuple", "dict"}
         THEN [to |-> "returned",
               status |-> StatusPair(<<"E","r","r","o","r"," ","f","e","t","c","h","i","n","g"," ","q","u","e","s","t","i","o","n","s",":"," ">> \o <<"o","b","j","e","c","t"," ","o","f"," ","t","y","p","e"," ","'">> \o type_name(qd)
                                            \o <<"'"," ","h","a","s"," ","n","o"," ","l","e","n","(",")">>, NoneValue)]
    ELSE [to |-> "loop", status |-> Return(<<>>)]

\* lines 93-104: the GET returns a success status and a JSON body
FetchSucceeds ==
    /\ bpc = "fetch"
    /\ \E r \in FetchOutcomes :
           /\ r.kind = "response" /\ r.status_code = 200 /\ r.body.decodes
           /\ fetched' = r
           /\ questions_data' = r.body.data
           /\ bpc' = after_fetch(r.body.data).to
           /\ status' = after_fetch(r.body.data).status
    /\ idx' = 1
    /\ UNCHANGED <<qfile, file_path, answers_payload, results_log, delays, posts>>
    /\ UNCHANGED avars
    /\ UNCHANGED nvars
    /\ UNCHANGED tvars

\* lines 95-97 and 102-104: status 429, the questions come from the local file
FetchFallsBack ==
    /\ bpc = "fetch"
    \* the states of questions.json when load_questions_from_file looks at it
    /\ \E r \in FetchOutcomes : \E f \in ({[state |-> "data", data |-> v] : v \in JsonValues} \cup {[state |-> "missing"], [state |-> "unreadable"], [state |-> "undecodable"]}) :
           /\ r.kind = "response" /\ r.status_code = 429
           /\ fetched' = r
           /\ qfile' = f
           /\ questions_data' = load_questions_from_file(f)
           /\ bpc' = after_fetch(load_questions_from_file(f)).to
           /\ status' = after_fetch(load_questions_from_file(f)).status
    /\ idx' = 1
    /\ UNCHANGED <<file_path, answers_payload, results_log, delays, posts>>
    /\ UNCHANGED avars
    /\ UNCHANGED nvars
    /\ UNCHANGED tvars

\* lines 94, 99-100 and 105-107: the GET raises, raise_for_status raises or
\* the body does not decode; the except clause returns
FetchFails ==
    /\ bpc = "fetch"
    /\ \E r \in FetchOutcomes :
           /\ \/ r.kind = "raised"
              \/ r.kind = "response" /\ r.status_code \notin {200, 429}
              \/ r.kind = "response" /\ r.status_code = 200 /\ ~r.body.decodes
           /\ fetched' = r
           /\ status' = StatusPair(<<"E","r","r","o","r"," ","f","e","t","c","h","i","n","g"," ","q","u","e","s","t","i","o","n","s",":"," ">> \o
                            (IF r.kind = "raised" THEN <<"c","o","n","n","e","c","t","i","o","n"," ","r","e","f","u","s","e","d">>
                             ELSE IF r.status_code # 200 THEN <<"5","0","0"," ","S","e","r","v","e","r"," ","E","r","r","o","r">>
                             ELSE <<"E","x","p","e","c","t","i","n","g"," ","v","a","l","u","e">>), NoneValue)
    /\ bpc' = "returned"
    /\ UNCHANGED <<qfile, questions_data, idx, file_path, answers_payload,
                   results_log, delays, posts>>
    /\ UNCHANGED avars
    /\ UNCHANGED nvars
    /\ UNCHANGED tvars

\* the item the for loop is at
CurrentItem == iter_items(questions_data)[idx]

\* line 114: the loop is over
LoopEnds ==
    /\ bpc = "loop"
    /\ idx > Len(iter_items(questions_data))
    /\ bpc' = "after"
    /\ UNCHANGED <<fetched, qfile, questions_data, idx, file_path, answers_payload,
                   results_log, delays, posts, status>>
    /\ UNCHANGED avars
    /\ UNCHANGED nvars
    /\ UNCHANGED tvars

\* line 115: item.get on an item that is no dict raises AttributeError, which
\* nothing catches
ItemGetFails ==
    /\ bpc = "loop"
    /\ idx <= Len(iter_items(questions_data))
    /\ CurrentItem.type # "dict"
    /\ status' = Raise("AttributeError",
                       <<"'">> \o type_name(CurrentItem) \o <<"'"," ","o","b","j","e","c","t"," ","h","a","s"," ","n","o"," ","a","t","t","r","i","b","u","t","e"," ","'","g","e","t","'">>)
    /\ bpc' = "raised"
    /\ UNCHANGED <<fetched, qfile, questions_data, idx, file_path, answers_payload,
                   results_log, delays, posts>>
    /\ UNCHANGED avars
    /\ UNCHANGED nvars
    /\ UNCHANGED tvars

\* lines 115-122: an item without task_id or question is passed over
SkipItem ==
    /\ bpc = "loop"
    /\ idx <= Len(iter_items(questions_data))
    /\ CurrentItem.type = "dict"
    /\ skip_item(dict_get(CurrentItem, task_id_key), dict_get(CurrentItem, question_key))
    /\ file_path' = NoneValue
    /\ idx' = idx + 1
    /\ UNCHANGED <<bpc, fetched, qfile, questions_data, answers_payload,
                   results_log, delays, posts, status>>
    /\ UNCHANGED avars
    /\ UNCHANGED nvars
    /\ UNCHANGED tvars

\* lines 115-124: an item with task_id and question is taken up
TakeItem ==
    /\ bpc = "loop"
    /\ idx <= Len(iter_items(questions_data))
    /\ CurrentItem.type = "dict"
    /\ ~skip_item(dict_get(CurrentItem, task_id_key), dict_get(CurrentItem, question_key))
    /\ file_path' = NoneValue
    /\ bpc' = IF py_bool(dict_get(CurrentItem, file_name_key)) THEN "download" ELSE "answer"
    /\ UNCHANGED <<fetched, qfile, questions_data, idx, answers_payload,
                   results_log, delays, posts, status>>
    /\ UNCHANGED avars
    /\ UNCHANGED nvars
    /\ UNCHANGED tvars

\* lines 125-141: the attached file is downloaded and saved
DownloadFile ==
    /\ bpc = "download"
    /\ file_path' = Str(make_file_path(dict_get(CurrentItem, task_id_key),
                                       dict_get(CurrentItem, file_name_key).s, idx))
    /\ bpc' = "answer"
    /\ UNCHANGED <<fetched, qfile, questions_data, idx, answers_payload,
                   results_log, delays, posts, status>>
    /\ UNCHANGED avars
    /\ UNCHANGED nvars
    /\ UNCHANGED tvars

\* lines 143-145: the download fails, the question goes on without a file
DownloadFails ==
    /\ bpc = "download"
    /\ file_path' = NoneValue
    /\ bpc' = "answer"
    /\ UNCHANGED <<fetched, qfile, questions_data, idx, answers_payload,
                   results_log, delays, posts, status>>
    /\ UNCHANGED avars
    /\ UNCHANGED nvars
    /\ UNCHANGED tvars

\* lines 147-150 and 153-155: answer_question is called and its outcome is
\* recorded
AnswerQuestion ==
    /\ bpc = "answer"
    \* what agent.answer_question hands back: an answer, or the text its except
    \* clause builds; both orchestrators catch every Exception themselves
    /\ \E outcome \in ({Return(<<"4">>), Return(error_label \o FailureMsg("AuthenticationError", 1))}) :
           LET r == record_answer(outcome, dict_get(CurrentItem, task_id_key),
                                  dict_get(CurrentItem, question_key),
                                  answers_payload, results_log)
           IN  /\ answers_payload' = r.payload
               /\ results_log' = r.log
    /\ bpc' = "delay"
    /\ UNCHANGED <<fetched, qfile, questions_data, idx, file_path, delays, posts, status>>
    /\ UNCHANGED avars
    /\ UNCHANGED nvars
    /\ UNCHANGED tvars

\* the loop that goes to the next item without sleeping
Delay_without_sleep ==
    /\ bpc = "delay"
    /\ idx' = idx + 1
    /\ bpc' = "loop"
    /\ UNCHANGED <<fetched, qfile, questions_data, file_path, answers_payload,
                   results_log, delays, posts, status>>
    /\ UNCHANGED avars
    /\ UNCHANGED nvars
    /\ UNCHANGED tvars

\* lines 151 and 156: time.sleep(10), then the next item
Delay ==
    /\ bpc = "delay"
    /\ delays' = Append(delays, 10)
    /\ idx' = idx + 1
    /\ bpc' = "loop"
    /\ UNCHANGED <<fetched, qfile, questions_data, file_path, answers_payload,
                   results_log, posts, status>>
    /\ UNCHANGED avars
    /\ UNCHANGED nvars
    /\ UNCHANGED tvars

\* the runner that posts the empty list of answers all the same
NoAnswers_posts_anyway ==
    /\ bpc = "after"
    /\ answers_payload = <<>>
    /\ posts' = posts + 1
    /\ status' = StatusPair(<<"S","u","b","m","i","s","s","i","o","n"," ","f","a","i","l","e","d",":"," ">>, DataFrame(results_log))
    /\ bpc' = "returned"
    /\ UNCHANGED <<fetched, qfile, questions_data, idx, file_path, answers_payload,
                   results_log, delays>>
    /\ UNCHANGED avars
    /\ UNCHANGED nvars
    /\ UNCHANGED tvars

\* lines 159-160: nothing to submit
NoAnswers ==
    /\ bpc = "after"
    /\ answers_payload = <<>>
    /\ status' = StatusPair(<<"A","g","e","n","t"," ","d","i","d"," ","n","o","t"," ","p","r","o","d","u","c","e"," ","a","n","y"," ","a","n","s","w","e","r","s"," ","t","o"," ","s","u","b","m","i","t",".">>, DataFrame(results_log))
    /\ bpc' = "returned"
    /\ UNCHANGED <<fetched, qfile, questions_data, idx, file_path, answers_payload,
                   results_log, delays, posts>>
    /\ UNCHANGED avars
    /\ UNCHANGED nvars
    /\ UNCHANGED tvars

\* lines 163-180: the POST succeeds
SubmitSucceeds ==
    /\ bpc = "after"
    /\ answers_payload # <<>>
    /\ posts' = posts + 1
    \* the JSON objects the submit endpoint answers with
    /\ \E result_data \in ({Dict(<<>>), Dict(<<<<<<"u","s","e","r","n","a","m","e">>, Str(<<"u">>)>>, <<<<"s","c","o","r","e">>, IntValue(50)>>, <<<<"c","o","r","r","e","c","t","_","c","o","u","n","t">>, IntValue(1)>>, <<<<"t","o","t","a","l","_","a","t","t","e","m","p","t","e","d">>, IntValue(2)>>, <<<<"m","e","s","s","a","g","e">>, Str(<<"o", "k">>)>>>>)}) :
           status' = StatusPair(final_status(result_data), DataFrame(results_log))
    /\ bpc' = "returned"
    /\ UNCHANGED <<fetched, qfile, questions_data, idx, file_path, answers_payload,
                   results_log, delays>>
    /\ UNCHANGED avars
    /\ UNCHANGED nvars
    /\ UNCHANGED tvars

\* lines 163-170 and 181-183: the POST raises, is answered with an error
\* status, or its body is no JSON object
SubmitFails ==
    /\ bpc = "after"
    /\ answers_payload # <<>>
    /\ posts' = posts + 1
    /\ \E msg \in {<<"c","o","n","n","e","c","t","i","o","n"," ","r","e","f","u","s","e","d">>, <<"5","0","0"," ","S","e","r","v","e","r"," ","E","r","r","o","r">>, <<"'">> \o type_name(List(<<>>)) \o <<"'"," ","o","b","j","e","c","t"," ","h","a","s"," ","n","o"," ","a","t","t","r","i","b","u","t","e"," ","'","g","e","t","'">>} :
           status' = StatusPair(<<"S","u","b","m","i","s","s","i","o","n"," ","f","a","i","l","e","d",":"," ">> \o msg, DataFrame(results_log))
    /\ bpc' = "returned"
    /\ UNCHANGED <<fetched, qfile, questions_data, idx, file_path, answers_payload,
                   results_log, delays>>
    /\ UNCHANGED avars
    /\ UNCHANGED nvars
    /\ UNCHANGED tvars

NextBatch ==
    \/ Begin
    \/ FetchSucceeds
    \/ FetchFallsBack
    \/ FetchFails
    \/ LoopEnds
    \/ ItemGetFails
    \/ SkipItem
    \/ TakeItem
    \/ DownloadFile
    \/ DownloadFails
    \/ AnswerQuestion
    \/ Delay
    \/ NoAnswers
    \/ SubmitSucceeds
    \/ SubmitFails

SpecBatch == InitBatch /\ [][NextBatch]_vars

(***************************************************************************)
(* A tool call: the function runs on its input.                            *)
(***************************************************************************)
RunTool ==
    /\ tpc = "called"
    /\ tout' = call_tool(tool, arg, tenv)
    /\ tpc' = "done"
    /\ UNCHANGED <<tool, arg, tenv>>
    /\ UNCHANGED nvars
    /\ UNCHANGED avars
    /\ UNCHANGED bvars

NextTools == RunTool

SpecTools == InitTools /\ [][NextTools]_vars

(***************************************************************************)
(* A call of fix_reversed_text on a text.                                  *)
(***************************************************************************)
InitText ==
    /\ NormalizerOff
    /\ AgentOff
    /\ BatchOff
    /\ tpc = "called"
    /\ tool = "fix_reversed_text"
    \* text: words and their reversals, a name, a year, single characters
    /\ LET pieces == {<<"a","b","c">>, <<"c","b","a">>, <<"A","b","c">>, <<"c","b","A">>,
                      <<"2","0","2","4">>, <<"4","2","0","2">>, <<" ">>, <<"a">>}
           RECURSIVE texts(_)
           texts(n) == IF n = 0 THEN {<<>>}
                       ELSE texts(n - 1) \cup {s \o p : s \in texts(n - 1), p \in pieces}
       IN  arg \in texts(MaxWords)
    /\ tenv = [file |-> "file", service |-> "ok"]
    /\ tout = Return(NoneValue)

SpecText == InitText /\ [][NextTools]_vars

(***************************************************************************)
(* Helpers of the properties below.                                        *)
(***************************************************************************)
ToUpper(c) ==
    CASE c = "f" -> "F" [] c = "i" -> "I" [] c = "n" -> "N" [] c = "a" -> "A"
      [] c = "l" -> "L" [] c = "s" -> "S" [] c = "w" -> "W" [] c = "e" -> "E"
      [] c = "r" -> "R" [] OTHER -> c

\* the label FINAL ANSWER:, in any letter case, stands at position i of s
LabelAt(s, i) ==
    /\ i >= 1
    /\ i + 12 <= Len(s)
    /\ [k \in 1..13 |-> ToUpper(s[i + k - 1])] = FINAL_ANSWER

HasLabel(s) == \E i \in 1..Len(s) : LabelAt(s, i)

FirstLabel(s) ==
    CHOOSE i \in 1..Len(s) : LabelAt(s, i) /\ \A j \in 1..(i - 1) : ~LabelAt(s, j)

\* the text from position b up to the end of its line
RestOfLine(s, b) ==
    LET e == CHOOSE x \in b..(Len(s) + 1) :
                 /\ x = Len(s) + 1 \/ s[x] = "\n"
                 /\ \A k \in b..(x - 1) : s[k] # "\n"
    IN  Slice(s, b, e - 1)

\* the first position at or after b that holds no whitespace
SkipWhitespace(s, b) ==
    CHOOSE x \in b..(Len(s) + 1) :
        /\ x = Len(s) + 1 \/ s[x] \notin Whitespace
        /\ \A k \in b..(x - 1) : s[k] \in Whitespace

Quotes == {"\"", "'"}

\* s is some text between a pair of equal quote characters
QuoteWrapped(s) == Len(s) >= 2 /\ s[1] \in Quotes /\ s[Len(s)] = s[1]

\* s starts and ends with the same quote character
QuoteAtBothEnds(s) == Len(s) >= 1 /\ s[1] \in Quotes /\ s[Len(s)] = s[1]

\* the listed prefixes that begin s, by their place in the list
ListedPrefixesOf(s) ==
    {k \in 1..Len(prefixes_to_remove) :
        /\ Len(s) >= Len(prefixes_to_remove[k])
        /\ \A i \in 1..Len(prefixes_to_remove[k]) : s[i] = prefixes_to_remove[k][i]}

\* s without its first n characters, trimmed
DropTrim(s, n) == strip(Slice(s, n + 1, Len(s)))

Openers == {skip_prefixes[k] : k \in 1..Len(skip_prefixes)}

StartsWithOpener(s) == \E p \in Openers : Len(s) >= Len(p) /\ SubSeq(s, 1, Len(p)) = p

Count(s, a, b, c) == Cardinality({k \in a..b : s[k] = c})

\* s[i..j] is a whole metadata span on one line: one of the three dict keys
\* followed by a brace-balanced dict, or id= followed by a quoted text
MetaSpan(s, i, j) ==
    /\ j <= Len(s)
    /\ \A x \in i..j : s[x] # "\n"
    /\ \/ /\ \E key \in {additional_kwargs, response_metadata, usage_metadata} :
                 MatchAt(s, i, key)
          /\ Count(s, i, j, "{") = Count(s, i, j, "}")
          /\ \A x \in i..(j - 1) :
                 Count(s, i, x, "{") = 0 \/ Count(s, i, x, "{") > Count(s, i, x, "}")
       \/ /\ MatchAt(s, i, id_quote)
          /\ j >= i + Len(id_quote)
          /\ s[j] = "'"
          /\ \A x \in (i + Len(id_quote))..(j - 1) : s[x] # "'"

\* no character of s can open or close a metadata span
Plain(s) == \A k \in 1..Len(s) : s[k] \notin {"{", "}", "'", "="}

StartsWithListedPrefix(s) ==
    \E k \in 1..Len(prefixes_to_remove) :
        Len(s) >= Len(prefixes_to_remove[k])
        /\ \A i \in 1..Len(prefixes_to_remove[k]) : s[i] = prefixes_to_remove[k][i]

Cleaned == npc \in {"done", "again"} /\ ~result.raised

Text(s) == raw = Str(s)

(***************************************************************************)
(* Properties of the normalizer.                                           *)
(***************************************************************************)
\* C1 (as stated): for every input text that contains the label FINAL ANSWER:
\* in any letter case, _clean_answer returns exactly the trimmed text that
\* follows a label up to the end of that line.
C1_ReturnsTextAfterMarker ==
    (npc \in {"done", "again"} /\ raw.type = "str" /\ HasLabel(raw.s)) =>
        /\ ~result.raised
        /\ \E i \in 1..Len(raw.s) :
               /\ LabelAt(raw.s, i)
               /\ result.value = strip(RestOfLine(raw.s, i + 13))

\* C1 (amended): when the text left by metadata stripping contains the label,
\* the working answer is the trimmed text that follows the first label, after
\* any whitespace (line breaks included), up to the next line end; the value
\* returned is that text whenever it begins with no listed prefix and does not
\* both start and end with the same quote character.
C1_WorkingAnswerAfterFirstMarker ==
    (Cleaned /\ HasLabel(trace.cleaned)) =>
        LET s == trace.cleaned
            b == SkipWhitespace(s, FirstLabel(s) + 13)
            captured == strip(RestOfLine(s, b))
        IN  /\ trace.working = captured
            /\ (~StartsWithListedPrefix(captured) /\ ~QuoteAtBothEnds(captured))
                   => result.value = captured

C1_Witness ==
    /\ npc = "done"
    /\ Text(FINAL_ANSWER \o <<" ", "4">>)
    /\ result = Return(<<"4">>)

\* C2: _clean_answer applied to its own result returns that result.
C2_Idempotent == (npc = "again") => second = result

\* C4: _clean_answer raises for no shape of the raw model output.
C4_NeverRaises == (npc \in {"done", "again"}) => ~result.raised

\* C5: the result is empty only when the input text was empty.
C5_EmptyOnlyForEmptyInput ==
    (Cleaned /\ raw.type = "str" /\ Len(raw.s) > 0) => Len(result.value) > 0

\* C6: every value returned is a single line, is not enclosed in a pair of
\* quotes and starts with none of the listed boilerplate prefixes.
C6_CanonicalAnswer ==
    Cleaned =>
        /\ \A i \in 1..Len(result.value) : result.value[i] # "\n"
        /\ ~QuoteWrapped(result.value)
        /\ ~StartsWithListedPrefix(result.value)

\* C7 (as stated): the prefix step removes at most one prefix, the first of
\* the list that begins the working answer, and nothing else.
C7_AtMostOnePrefix ==
    Cleaned =>
        LET w == trace.working
            K == ListedPrefixesOf(w)
        IN  IF K = {} THEN trace.stripped = w
            ELSE \E k \in K : trace.stripped = DropTrim(w, Len(prefixes_to_remove[k]))

\* C7 (amended): the prefix step makes one pass over the list of seven. A
\* working answer that begins with no listed prefix is left as it is; one that
\* begins with a listed prefix loses it, and what is left loses a further
\* prefix exactly when it begins with a prefix listed later; a prefix listed
\* earlier, or the same prefix again, stays.
C7_OnePassOverPrefixList ==
    Cleaned =>
        LET w == trace.working
            r == trace.stripped
        IN  /\ ListedPrefixesOf(w) = {} => r = w
            /\ \A k \in ListedPrefixesOf(w) :
                   LET rest == DropTrim(w, Len(prefixes_to_remove[k]))
                   IN  IF \E j \in ListedPrefixesOf(rest) : j > k
                       THEN Len(r) < Len(rest) /\ endswith(rest, r)
                       ELSE r = rest

C7_Witness ==
    /\ npc = "done"
    /\ Text(prefixes_to_remove[1] \o prefixes_to_remove[2] \o <<"4">>)
    /\ trace.working = raw.s
    /\ trace.stripped = <<"4">>

\* C8: the quote step removes exactly the outer pair of quotes when the
\* answer starts and ends with the same quote character, and leaves any other
\* answer untouched.
C8_OuterPairOnly ==
    Cleaned =>
        LET w == trace.stripped
        IN  IF QuoteAtBothEnds(w)
            THEN /\ \E q \in Quotes : \E n \in 0..Len(w) :
                        w = <<q>> \o Slice(w, 2, n) \o <<q>>
                 /\ result.value = strip(Slice(w, 2, Len(w) - 1))
            ELSE trace.unquoted = w

\* C9: without a label, the working answer is the last line that is non-empty
\* after trimming and starts with none of the four openers; when there is no
\* such line it is the whole cleaned text.
C9_FallbackLine ==
    (Cleaned /\ ~HasLabel(trace.cleaned)) =>
        LET lines == split(strip(trace.cleaned))
            good == {k \in 1..Len(lines) :
                        strip(lines[k]) # <<>> /\ ~StartsWithOpener(strip(lines[k]))}
        IN  IF good = {}
            THEN trace.working = trace.cleaned
            ELSE \E k \in good :
                     /\ \A j \in good : j <= k
                     /\ trace.working = strip(lines[k])

C9_Witness ==
    /\ npc = "done"
    /\ Text(<<"a", "\n">> \o prefixes_to_remove[1])
    /\ trace.working = <<"a">>
    /\ result = Return(<<"a">>)

\* C10: a metadata span embedded in otherwise plain text is removed as that
\* exact span before the label is searched: what is left is the text before
\* it followed by the text after it.
C10_ExactSpanRemoved ==
    (Cleaned /\ raw.type = "str") =>
        \A i \in 1..Len(raw.s) : \A j \in i..Len(raw.s) :
            (/\ MetaSpan(raw.s, i, j)
             /\ Plain(Slice(raw.s, 1, i - 1))
             /\ Plain(Slice(raw.s, j + 1, Len(raw.s))))
                => trace.cleaned = Slice(raw.s, 1, i - 1) \o Slice(raw.s, j + 1, Len(raw.s))

(***************************************************************************)
(* Properties of answer_question.                                          *)
(***************************************************************************)
\* C3: answer_question lets no exception out: a call in which the agent-loop
\* construction, the retried invocation or the normalization raised returns
\* the text "Error: " followed by the message of the exception that reached
\* the except clause, and every call returns a text.
C3_AlwaysReturnsString ==
    /\ apc # "propagated"
    /\ apc = "returned" =>
           /\ ~ret.raised
           /\ exc # NoExc => ret.value = error_label \o exc.msg

C3_Witness ==
    /\ apc = "returned"
    /\ exc.cls = "TypeError"
    /\ attempts = 2
    /\ ret = Return(error_label \o type_error)

(***************************************************************************)
(* Properties of the response formats.                                     *)
(***************************************************************************)
\* the value of raw's last item with key content
ContentItem(v) ==
    v.items[CHOOSE i \in 1..Len(v.items) :
                /\ v.items[i][1] = content_key
                /\ \A j \in (i + 1)..Len(v.items) : v.items[j][1] # content_key][2]

HasContentItem(v) == \E i \in 1..Len(v.items) : v.items[i][1] = content_key

\* C11: the text _clean_answer works on is chosen by a fixed precedence: the
\* content attribute of a value that exposes one; otherwise, for a dict, its
\* value at key content, or its string representation when it has no such
\* key; otherwise the string representation of a value that is no text; a
\* plain text as it is. A message whose content is a reasoning text ending in
\* "FINAL ANSWER: 1234,paris,5678,london" gives "1234,paris,5678,london".
C11_UnwrapPrecedence ==
    /\ Cleaned =>
          /\ "content" \in DOMAIN raw => trace.text = raw.content.s
          /\ ("content" \notin DOMAIN raw /\ raw.type = "dict" /\ HasContentItem(raw))
                 => trace.text = ContentItem(raw).s
          /\ raw = Dict(<<<<output_key, Str(<<"4">>)>>>>)
                 => trace.text = <<"{","'","o","u","t","p","u","t","'",":"," ","'","4","'","}">>
          /\ raw = Dict(<<<<output_key, NoneValue>>>>)
                 => trace.text = <<"{","'","o","u","t","p","u","t","'",":"," ","N","o","n","e","}">>
          /\ raw = IntValue(42) => trace.text = <<"4", "2">>
          /\ raw = NoneValue => trace.text = <<"N", "o", "n", "e">>
          /\ raw.type = "str" => trace.text = raw.s
    /\ (npc \in {"done", "again"} /\ raw = Message(Str(reasoning_text)))
           => result = Return(reasoning_answer)

\* a dict subclass with both a content attribute and a content key went
\* through: the attribute was taken
C11_Witness ==
    /\ npc = "done"
    /\ raw = AttrDict(<<<<content_key, Str(<<"a">>)>>>>, Str(<<"4">>))
    /\ trace.text = <<"4">>
    /\ result = Return(<<"4">>)

(***************************************************************************)
(* Properties of _run_agent_with_retry.                                    *)
(***************************************************************************)
\* the failure kinds the specification calls transient: rate limit, quota
\* exhausted, provider timeout
TransientKinds == {"ResourceExhausted", "DeadlineExceeded", "RateLimitError", "APITimeoutError"}

\* every attempt the retry policy allows was made and the last one failed
\* with a failure the policy retries
Exhausted ==
    /\ attempts = (IF orch = "gemini" THEN 5 ELSE 3)
    /\ response = NoneValue
    /\ failure.cls \in TransientKinds
    /\ apc \in {"except", "returned"}

\* C12: when the retry budget is exhausted, the exception that reaches
\* answer_question is the failure of the last attempt, and the text returned
\* is "Error: " followed by that failure's message, for both orchestrators.
C12_SurfacesLastFailure ==
    Exhausted =>
        /\ exc = failure
        /\ apc = "returned" => ret = Return(error_label \o failure.msg)

\* C13: a call makes at most 5 (Gemini) resp. 3 (OpenAI) attempts, every two
\* consecutive attempts are separated by one wait of 20 s resp. 15 s, and
\* once an attempt has returned a value no further attempt is made in that
\* call.
C13_BoundedAttemptsFixedWait ==
    /\ [](/\ attempts <= (IF orch = "gemini" THEN 5 ELSE 3)
          /\ \A i \in 1..Len(sleeps) : sleeps[i] = (IF orch = "gemini" THEN 20 ELSE 15)
          /\ apc = "attempt" => Len(sleeps) = attempts
          /\ (apc \in {"sleep", "normalize"}) => Len(sleeps) = attempts - 1
          /\ (apc \in {"except", "returned"} /\ attempts > 0) => Len(sleeps) = attempts - 1)
    /\ [][(response # NoneValue /\ calls' = calls)
              => (attempts' = attempts /\ sleeps' = sleeps /\ apc' # "attempt")]_vars

\* the fifth attempt of a Gemini call succeeded after four waits of 20 s
C13_Witness ==
    /\ orch = "gemini"
    /\ apc = "returned"
    /\ attempts = 5
    /\ sleeps = <<20, 20, 20, 20>>
    /\ response = Str(<<"4">>)
    /\ ret = Return(<<"4">>)

\* C14: an attempt that failed with a failure of no transient kind is
\* followed by no wait and no further attempt: the failure leaves
\* _run_agent_with_retry at once (after exactly one attempt when it is the
\* first failure of the call), for both orchestrators.
C14_NonTransientNotRetried ==
    (failure # NoExc /\ failure.cls \notin TransientKinds) =>
        /\ apc \in {"except", "returned"}
        /\ exc = failure
        /\ failure.msg = FailureMsg(failure.cls, 1) => attempts = 1

(***************************************************************************)
(* Properties of run_and_submit_all.                                       *)
(***************************************************************************)
\* item is a record whose entry at key holds a value that is not null
HasValue(item, key) ==
    /\ item.type = "dict"
    /\ \E i \in 1..Len(item.items) :
           item.items[i][1] = key /\ item.items[i][2].type # "NoneType"

ValueAt(item, key) ==
    item.items[CHOOSE i \in 1..Len(item.items) : item.items[i][1] = key][2]

\* a question item with a non-null task_id and a question
HasTaskAndQuestion(item) == HasValue(item, task_id_key) /\ HasValue(item, question_key)

\* a question item whose task_id is neither null nor empty, with a question
HasUsableTaskAndQuestion(item) ==
    HasTaskAndQuestion(item) /\ ValueAt(item, task_id_key) # Str(<<>>)

\* the elements of the question list, once it is fetched
BatchItems ==
    IF questions_data.type \in {"list", "tuple"} THEN questions_data.items ELSE <<>>

\* the positions among the first n elements that hold a usable question
UsableUpTo(n) == {k \in 1..n : k <= Len(BatchItems) /\ HasUsableTaskAndQuestion(BatchItems[k])}

\* the for loop has been left at its end
LoopDone == bpc = "after" \/ (bpc = "returned" /\ status.value.table # NoneValue)

IsText(s) == DOMAIN s = 1..Len(s) /\ \A i \in 1..Len(s) : s[i] \in STRING

\* C15: a question whose answering failed leaves a readable text ("Error: ..."
\* from answer_question) in place of its answer, in the submitted answers as
\* in the log, and the loop goes on: whenever the loop is between two items,
\* the log holds one entry for every usable question before the current
\* position, whatever its answer was. run_and_submit_all raises only before
\* the fetch or at a list element that is no question record, never at a
\* question.
C15_FailedQuestionIsRecorded ==
    /\ bpc \in {"loop", "after"} \/ LoopDone =>
           /\ Len(results_log) = Cardinality(UsableUpTo(idx - 1))
           /\ Len(answers_payload) = Len(results_log)
    /\ \A k \in 1..Len(results_log) :
           /\ IsText(results_log[k].submitted_answer)
           /\ k <= Len(answers_payload) =>
                  answers_payload[k].submitted_answer = results_log[k].submitted_answer
    /\ bpc = "delay" => Len(results_log) = Cardinality(UsableUpTo(idx))
    /\ bpc = "raised" =>
           \/ fetched.kind = "none"
           \/ idx <= Len(iter_items(questions_data)) /\ CurrentItem.type # "dict"

\* the first of two questions failed, the second was answered, both are in
\* the log and the run returned
C15_Witness ==
    /\ bpc = "returned"
    /\ Len(results_log) = 2
    /\ results_log[1].submitted_answer = error_label \o FailureMsg("AuthenticationError", 1)
    /\ results_log[2].submitted_answer = <<"4">>
    /\ answers_payload[1].submitted_answer = results_log[1].submitted_answer
    /\ posts = 1

\* the task ids of the question items at the positions of set K, in list order
TaskIdsAt(K) ==
    [n \in 1..Cardinality(K) |->
        ValueAt(BatchItems[CHOOSE x \in K : Cardinality({y \in K : y < x}) = n - 1],
                task_id_key)]

SubmittedTaskIds == [k \in 1..Len(answers_payload) |-> answers_payload[k].task_id]

\* C16 (as stated): after the loop the submitted answers hold exactly one
\* record for every item with a non-null task_id and a question, and none for
\* any other item.
C16_OneRecordPerNonNullTaskId ==
    LoopDone =>
        SubmittedTaskIds =
            TaskIdsAt({k \in 1..Len(BatchItems) : HasTaskAndQuestion(BatchItems[k])})

\* C16 (amended): after the loop the submitted answers hold, in list order,
\* exactly one record for every item whose task_id is neither null nor empty
\* and whose question is not null, and none for any other item; a question
\* whose answering failed has its record, holding the error text.
C16_OneRecordPerUsableTaskId ==
    LoopDone =>
        /\ SubmittedTaskIds = TaskIdsAt(UsableUpTo(Len(BatchItems)))
        /\ \A k \in 1..Len(answers_payload) :
               DOMAIN answers_payload[k] = {"task_id", "submitted_answer"}

\* of an answerable question and one with an empty task_id, only the first is
\* submitted, with the error text of its failed answer
C16_Witness ==
    /\ LoopDone
    /\ Len(BatchItems) = 2
    /\ HasUsableTaskAndQuestion(BatchItems[1])
    /\ HasTaskAndQuestion(BatchItems[2]) /\ ~HasUsableTaskAndQuestion(BatchItems[2])
    /\ Len(answers_payload) = 1
    /\ answers_payload[1] = [task_id |-> Str(<<"t", "1">>),
                             submitted_answer |-> error_label \o FailureMsg("AuthenticationError", 1)]

\* the GET of the question list has been made and did not deliver a 200
\* response with a decodable body
FetchFailed ==
    \/ fetched.kind = "raised"
    \/ fetched.kind = "response" /\ (fetched.status_code # 200 \/ ~fetched.body.decodes)

\* C17: whenever the fetch got a 429 or failed in any other way, the local
\* question file is loaded, and the batch runs over the questions it holds.
C17_FallsBackOnAnyFetchFailure ==
    FetchFailed =>
        /\ qfile # ([state |-> "unread"])
        /\ (qfile.state = "data" /\ qfile.data.type = "list" /\ Len(qfile.data.items) > 0
            /\ \A i \in 1..Len(qfile.data.items) :
                   /\ qfile.data.items[i].type = "dict"
                   /\ \A key \in required_keys : HasValue(qfile.data.items[i], key))
               => (questions_data = qfile.data /\ bpc # "raised")

\* the question list as it came from the endpoint or from the local file
SourceList ==
    IF qfile # ([state |-> "unread"]) THEN (IF qfile.state = "data" THEN qfile.data ELSE NoneValue)
    ELSE IF fetched.kind = "response" /\ fetched.status_code = 200 /\ fetched.body.decodes
         THEN fetched.body.data
    ELSE NoneValue

\* v is a list of records of which one lacks task_id, question or file_name
LacksRequiredKey(v) ==
    /\ v.type = "list"
    /\ \A i \in 1..Len(v.items) : v.items[i].type = "dict"
    /\ \E i \in 1..Len(v.items) : \E key \in required_keys :
           \A j \in 1..Len(v.items[i].items) : v.items[i].items[j][1] # key

\* C18: when a record of the question list lacks one of the three keys, no
\* question of the list is answered or submitted, and run_and_submit_all
\* returns an error message as its status, for a list from the endpoint as
\* for one from the local file.
C18_BatchRejectedAsAWhole ==
    LacksRequiredKey(SourceList) =>
        /\ bpc \notin {"download", "answer", "delay", "after", "raised"}
        /\ answers_payload = <<>> /\ results_log = <<>> /\ posts = 0
        /\ bpc = "returned" =>
               /\ status.value.table = NoneValue
               /\ startswith(status.value.status, <<"E", "r", "r", "o", "r">>)

(***************************************************************************)
(* Properties of the tool adapters.                                        *)
(***************************************************************************)
\* C19: every tool call returns, and what it returns is a text, whatever the
\* input and whatever the file system or the external service does.
C19_ToolsReturnText ==
    tpc = "done" => (~tout.raised /\ tout.value.type = "str")

FileTools ==
    {"read_file", "audio_transcriber", "read_csv_file", "read_excel_file",
     "extract_text_from_image", "chess_board_recognition"}

\* text p occurs in text s
Occurs(p, s) == \E i \in 1..(Len(s) + 1) : \E j \in (i - 1)..Len(s) : Slice(s, i, j) = p

\* C20: a file-reading tool called with the path of a file that does not
\* exist returns a text in which that path occurs, and does not raise.
C20_MissingFileNamedInError ==
    (tpc = "done" /\ tool \in FileTools /\ tenv.file = "missing") =>
        /\ ~tout.raised
        /\ tout.value.type = "str"
        /\ Occurs(arg, tout.value.s)

\* the task ids of the log entries, in the order they were appended
LoggedTaskIds == [k \in 1..Len(results_log) |-> results_log[k].task_id]

\* C21: the questions are handled one at a time, in list order. Whenever the
\* runner is inside the loop, every usable question before the current
\* position has its answer recorded and has been followed by one sleep of 10
\* seconds, the records stand in list order, and nothing of a later question
\* is recorded; the download and the answer_question call take place for
\* the question at the current position only, and the download starts with
\* no file path left over from an earlier question. At the sleep the current
\* question is recorded as well and its own sleep is still to come.
C21_OneQuestionAtATime ==
    bpc \in {"loop", "download", "answer", "delay", "after"} =>
        LET before == UsableUpTo(idx - 1)
            through == IF bpc = "delay" THEN UsableUpTo(idx) ELSE before
        IN  /\ delays = [k \in 1..Cardinality(before) |-> 10]
            /\ LoggedTaskIds = TaskIdsAt(through)
            /\ SubmittedTaskIds = LoggedTaskIds
            /\ bpc \in {"download", "answer", "delay"} =>
                   /\ idx \in 1..Len(BatchItems)
                   /\ HasUsableTaskAndQuestion(BatchItems[idx])
            /\ bpc = "download" => file_path = NoneValue

\* the file of the second question is downloaded and its answer_question
\* call is about to start; the first question is answered and its sleep done
C21_Witness ==
    /\ bpc = "answer"
    /\ idx = 2
    /\ file_path.type = "str"
    /\ delays = <<10>>
    /\ LoggedTaskIds = <<Str(<<"t", "1">>)>>
    /\ ValueAt(BatchItems[2], task_id_key) = Str(<<"t", "2">>)

\* C22: the memory object of the orchestrator is always the one its
\* constructor made; every call builds an agent loop of its own, and every
\* agent loop that runs was given that memory object, whatever the calls
\* before it ended in; a step never takes a turn out of the memory, it leaves
\* the turns as they are or appends to them.
C22_MemoryIsSharedAndKept ==
    /\ [](/\ memory.id = ConversationBufferMemory.id
          /\ apc \in {"attempt", "sleep", "normalize"} =>
                 agent = [built |-> calls, memory |-> memory.id])
    /\ [][/\ memory'.id = memory.id
          /\ Len(memory'.chat_history) >= Len(memory.chat_history)
          /\ SubSeq(memory'.chat_history, 1, Len(memory.chat_history))
                 = memory.chat_history]_vars

\* the first question ended in an error and left no turn; the agent loop of
\* the second question ran on the same memory object and saved its turn
C22_Witness ==
    /\ calls = 2
    /\ apc = "returned"
    /\ agent = [built |-> 2, memory |-> ConversationBufferMemory.id]
    /\ memory.chat_history = <<2>>
    /\ ~startswith(ret.value, error_label)

\* the positions of the label in s
Labels(s) == {i \in 1..Len(s) : LabelAt(s, i)}

\* C23: when the text left by metadata stripping holds the label more than
\* once, the working answer is taken at the first label: it is the trimmed
\* text from the first label's end (after any whitespace) to the next line
\* end. Later labels are not looked for: one that stands on a later line
\* contributes nothing, and one that stands inside the captured text stays in
\* the working answer as plain text, and in the value returned unless the
\* prefix or the quote step changes that text.
C23_FirstMarkerOnly ==
    (Cleaned /\ Cardinality(Labels(trace.cleaned)) >= 2) =>
        LET s == trace.cleaned
            first == FirstLabel(s)
            b == SkipWhitespace(s, first + 13)
            line == RestOfLine(s, b)
            inside == {i \in Labels(s) : i >= b /\ i + 12 <= b + Len(line) - 1}
        IN  /\ trace.working = strip(line)
            /\ Cardinality(Labels(trace.working)) = Cardinality(inside)
            /\ (~StartsWithListedPrefix(trace.working) /\ ~QuoteAtBothEnds(trace.working))
                   => /\ result.value = trace.working
                      /\ Cardinality(Labels(result.value)) = Cardinality(inside)

\* of an intermediate and a later labelled answer the intermediate one is
\* returned
C23_Witness ==
    /\ npc = "done"
    /\ Text(<<"a", "\n">> \o FINAL_ANSWER \o <<" ", "a", "\n">> \o FINAL_ANSWER \o <<" ", "4">>)
    /\ Cardinality(Labels(trace.cleaned)) = 2
    /\ trace.working = <<"a">>
    /\ result = Return(<<"a">>)

\* an OpenAI call returned the normalized form of a dict that has no content
\* entry
ReturnedFromMapping ==
    /\ orch = "openai"
    /\ apc = "returned"
    /\ exc = NoExc
    /\ response.type = "dict"
    /\ ~has_key(response, content_key)

\* C24: when agent.invoke hands back a dict without a content entry, the
\* OpenAI answer_question returns what _clean_answer makes of the printed
\* form of the whole dict: its result is the result for that text, it differs
\* from the result for the output entry alone, and when the question holds
\* the label FINAL ANSWER: the first label of the text is the one of the
\* question, so that the value returned is what follows it, the printed
\* output entry included.
C24_WholeMappingIsNormalized ==
    ReturnedFromMapping =>
        LET text == py_repr(response)
            output == get_item(response, output_key)
        IN  /\ get_item(response, input_key) = Str(prompt)
            /\ ret = clean_answer(Str(text))
            /\ ret # clean_answer(output)
            /\ HasLabel(prompt) =>
                   /\ FirstLabel(text) < Len(text) - Len(py_repr(output))
                   /\ ret.value = strip(RestOfLine(text, SkipWhitespace(text, FirstLabel(text) + 13)))
                   /\ Occurs(output_key, ret.value)

\* the question holds the label; the answer holds what follows it in the
\* printed dict, not the output "4"
C24_Witness ==
    /\ ReturnedFromMapping
    /\ prompt = <<"Q", " ">> \o FINAL_ANSWER \o <<" ", "a">>
    /\ get_item(response, output_key) = Str(<<"4">>)
    /\ ret = Return(<<"a", "'", ",", " ", "'", "o", "u", "t", "p", "u", "t", "'", ":", " ", "'", "4", "'", "}">>)

\* the GET of the question list raised, was answered with an error status
\* other than 429, or its body did not decode: the except clause of the
\* fetch step is taken
GetFailed ==
    \/ fetched.kind = "raised"
    \/ fetched.kind = "response" /\ fetched.status_code \notin {200, 429}
    \/ fetched.kind = "response" /\ fetched.status_code = 200 /\ ~fetched.body.decodes

\* C25: one run posts to the submit endpoint at most once. The POST is made
\* from the position after the loop only, with the loop run over the whole
\* list (every usable question recorded, every other item passed over) and
\* at least one answer collected. When the GET of the question list failed,
\* and when the loop ended with no answer collected, no POST is made and the
\* run returns a status text.
C25_SubmitsOnceAfterTheLoop ==
    /\ [](/\ posts \in {0, 1}
          /\ posts = 1 =>
                 /\ bpc = "returned"
                 /\ answers_payload # <<>>
                 /\ idx = Len(BatchItems) + 1
                 /\ Len(results_log) = Cardinality(UsableUpTo(Len(BatchItems)))
          /\ GetFailed =>
                 /\ posts = 0
                 /\ bpc = "returned"
                 /\ IsText(status.value.status)
                 /\ results_log = <<>>
          /\ (bpc = "returned" /\ answers_payload = <<>>) =>
                 /\ posts = 0
                 /\ IsText(status.value.status))
    /\ [][/\ posts' # posts => (bpc = "after" /\ bpc' = "returned")
          /\ (bpc = "after" /\ answers_payload = <<>>) =>
                 (bpc' = "returned" /\ posts' = posts)
          /\ (bpc = "after" /\ answers_payload # <<>>) => posts' = posts + 1]_vars

\* a list of two items, neither of them usable, was gone through: the run
\* returned its status text and made no POST
C25_Witness ==
    /\ bpc = "returned"
    /\ Len(BatchItems) = 2
    /\ idx = 3
    /\ answers_payload = <<>>
    /\ posts = 0
    /\ status.value.table = DataFrame(<<>>)

\* C26: fix_reversed_text returns the text it was given, whatever the text:
\* is_reversed_text is False for it, because every word it tries was found
\* in the text and so occurs in it.
C26_FixReversedTextIsIdentity ==
    (tpc = "done" /\ tool = "fix_reversed_text") =>
        /\ tout = Return(Str(arg))
        /\ ~is_reversed_text(arg)
        /\ \A k \in 1..3 : \A match \in re_findall(k, arg) : is_in(match, arg)

\* a text of reversed words, whose reversals do not occur in it, comes back
\* as it was given
C26_Witness ==
    /\ tpc = "done"
    /\ tool = "fix_reversed_text"
    /\ arg = <<"c","b","a"," ","4","2","0","2">>
    /\ re_findall(1, arg) = {<<"c","b","a">>, <<"4","2","0","2">>}
    /\ re_findall(3, arg) = {<<"4","2","0","2">>}
    /\ tout = Return(Str(arg))

====
